---- MODULE Spec2Model ----
(***************************************************************************)
(* Model of the headers-cache crawler and its verify/repair engine         *)
(* (standalone/headers-cache/src/grab.rs).                                 *)
(*                                                                         *)
(* Two specifications share the definitions below:                         *)
(*   Spec       the crawl loop: run -> Crawler::grab -> Crawler::run       *)
(*   SpecCheck  one call of check_and_fix_headers on a given store         *)
(***************************************************************************)
EXTENDS Integers, Sequences, FiniteSets, TLC

\* ------------------------------------------------------------------ bounds
\* highest block number either chain serves
MaxBlock == 2
\* environment faults (I/O failure, crash, bit rot, stale answer) per behaviour
MaxFaults == 1
\* highest block number the parachain node reports as finalized
MaxParaFinalized == 1
\* damaged records in the store a check_and_fix_headers call starts from
MaxDamage == 2

\* configurations the model draws from (Serve)
GenesisBlocks == {1}
JustificationIntervals == {1}
CheckBatches == {1}

Blocks == 0..MaxBlock
\* Option<BlockNumber>: None is -1
None == -1
OptBlocks == Blocks \cup {None}
unwrap_or(o, d) == IF o = None THEN d ELSE o
Min(a, b) == IF a < b THEN a ELSE b
Max(a, b) == IF a < b THEN b ELSE a
\* u32::MAX, the initial value of the two statics: above every block number
\* (the largest integer the model checker represents stands for 2^32 - 1)
U32MAX == 2147483647

\* ------------------------------------------------------------- headers
\* A header is its number, its parent_hash and "seal", which stands for the
\* rest of its content.  The chain API serves the canonical header "A" of a
\* block, or a stale header "B" of a fork that has since been abandoned.
\* "R" marks a header whose bytes rotted in the store but still decode.
Seals == {"A", "B"}
\* Header::hash(): injective on the headers of the model
Hash(h) == <<h.number, h.seal>>
\* the header of block n on fork s, as the chain API serves it
ChainHeader(n, s) ==
    [kind |-> "hdr", number |-> n, seal |-> s, parent_hash |-> <<n - 1, s>>]
\* stored bytes: an encoded header, bytes that do not decode, or no record
Absent == [kind |-> "absent", number |-> 0, seal |-> "-", parent_hash |-> <<0, "-">>]
Bad    == [kind |-> "bad",    number |-> 0, seal |-> "-", parent_hash |-> <<0, "-">>]
\* bit rot in the number field of an encoded header: it decodes, its number
\* and therefore its hash differ, its parent_hash bytes are intact
Rotten(n, m) == [ChainHeader(n, "A") EXCEPT !.number = m, !.seal = "R"]
\* Header::decode / decode_header: Ok(header) or Err
decode_header(data) ==
    IF data.kind = "hdr" THEN [ok |-> TRUE, header |-> data]
    ELSE [ok |-> FALSE, header |-> Absent]
\* Encode::encode of a fetched item, as put in the store
encode(h) == h

EmptyTable == [b \in Blocks |-> Absent]

\* ------------------------------------------------------------ Metadata
NoCursors == [header |-> None, para_header |-> None, storage_changes |-> None]
\* Metadata::default()
DefaultMetadata ==
    [genesis |-> {}, higest |-> NoCursors,
     recent_imported |-> NoCursors, checked |-> NoCursors]
\* Metadata::put_genesis
meta_put_genesis(m, b) == [m EXCEPT !.genesis = @ \cup {b}]
\* Metadata::update_header / update_para_header / update_storage_changes
meta_update(m, stream, n) ==
    [m EXCEPT !.higest[stream] = Max(@, n), !.recent_imported[stream] = n]

\* -------------------------------------------------------------- state
VARIABLES
    config,              \* Serve: the configuration, fixed for a run
    headers,             \* store: relay header table, block -> bytes
    para_headers,        \* store: parachain header table, block -> bytes
    storage_changes,     \* store: blocks that have a storage-changes record
    genesis_tbl,         \* store: heights that have a genesis blob
    pmeta,               \* store: the persisted Metadata record
    metadata,            \* run: the in-memory Metadata
    next_header,         \* run: next relay header to grab
    next_para_header,    \* run: next parachain header to grab
    next_delta,          \* run: next storage-changes block to grab
    LATEST_JUSTFICATION, \* static AtomicU32
    pc,                  \* position of the crawl loop
    latest_finalized,    \* the finalized number the stage just entered observed
    req,                 \* the upstream batch request being served, if any
    err,                 \* the error the last failed call returned
    chk,                 \* the running check_and_fix_headers call
    faults,              \* environment faults injected so far
    genesis_fetches,     \* history: fetch_genesis_info calls that returned
    genesis_writes,      \* history: put_genesis calls that returned Ok
    grab_failed,         \* history: some grab stage has returned an error
    item_justified,      \* history: the last relay item carried a justification
    first_tick,          \* history: the process is in its first loop iteration
    flag,                \* CheckSystem storage: flag
    on_block_end_called, \* CheckSystem storage: on_block_end_called
    hook,                \* the system contract's OnBlockEnd hook for CheckSystem
    ret,                 \* what the last CheckSystem message returned
    worker_map,          \* prb: WorkerManagerContext.worker_map, id -> worker
    api                  \* prb: the running worker-manager API handler

store_vars == <<headers, para_headers, storage_changes, genesis_tbl, pmeta>>
cursor_vars == <<next_header, next_para_header, next_delta>>
hist_vars == <<genesis_fetches, genesis_writes, grab_failed>>
contract_vars == <<flag, on_block_end_called, hook, ret>>
api_vars == <<worker_map, api>>
crawler_vars ==
    <<config, headers, para_headers, storage_changes, genesis_tbl, pmeta,
      metadata, next_header, next_para_header, next_delta,
      LATEST_JUSTFICATION, pc, latest_finalized, req, err, chk, faults,
      genesis_fetches, genesis_writes, grab_failed, first_tick, item_justified>>
vars == <<config, headers, para_headers, storage_changes, genesis_tbl, pmeta,
          metadata, next_header, next_para_header, next_delta,
          LATEST_JUSTFICATION, pc, latest_finalized, req, err, chk, faults,
          genesis_fetches, genesis_writes, grab_failed, first_tick, item_justified,
          flag, on_block_end_called, hook, ret, worker_map, api>>

\* ------------------------------------------------ prb: the worker manager
\* the ids a request can name; UnknownIds are never added to the map
WorkerIds == {"w1", "w2"}
UnknownIds == {"w2"}
\* WorkerLifecycleState as the handlers see it: the three states they match
\* on, and one for every other state
WorkerStates == {"Restarting", "Working", "GatekeeperWorking", "Starting"}
\* the mpsc channel to the worker's lifecycle task: its receiver lives or not
TxStates == {"open", "closed"}
NoWorker == [state |-> "-", tx |-> "-"]
\* the endpoint lists a request can carry
EndpointLists == {"e1", "e2"}
\* longest request
MaxIds == 2
\* no handler is running
IdleApi ==
    [apc |-> "idle", handler |-> "-", requests |-> <<>>, c |-> <<>>, idx |-> 0,
     sent |-> <<>>, ret |-> <<"-">>]
\* the worker manager as started: no worker yet, no request
ManagerStarted ==
    /\ worker_map = [id \in WorkerIds |-> NoWorker]
    /\ api = IdleApi

\* CheckSystem::default(), the constructor: the contract as deployed
\* the last message executed, its argument and what it returned
Returned(m, a, v) == [msg |-> m, arg |-> a, value |-> v]
NoReturn == Returned("-", "-", "-")
Deployed ==
    /\ flag = ""
    /\ on_block_end_called = FALSE
    /\ hook = FALSE
    /\ ret = NoReturn

Configs ==
    [genesis_block : GenesisBlocks,
     justification_interval : JustificationIntervals,
     check_batch : CheckBatches,
     grab_headers : BOOLEAN,
     grab_para_headers : BOOLEAN,
     grab_storage_changes : BOOLEAN]

\* ------------------------------------------------- the chain API's answers
\* What one single-block re-fetch meets: the connection fails, the node has
\* no such block, the store write fails, or the node serves the header (the
\* canonical one, or a stale one).
Answers ==
    {[r |-> "ok", seal |-> s] : s \in Seals}
      \cup {[r |-> x, seal |-> "-"] : x \in {"connect", "noitem", "put"}}
AnsFault(a) == IF a = [r |-> "ok", seal |-> "A"] THEN 0 ELSE 1

NoRequest == [start |-> None, count |-> 0]

\* CacheDB::get_header / get_para_header
db_get(tbl, b) == IF b \in Blocks THEN tbl[b] ELSE Absent

RegrabFail(e, tbl) == [ok |-> FALSE, err |-> e, tbl |-> tbl, header |-> Absent]

\* variant: the re-fetched header is returned but not put in the store
\* (ruled out by C8)
regrab_header_nowrite(tbl, cfg, number, ans) ==
    IF ~cfg.grab_headers THEN RegrabFail("disabled", tbl)
    ELSE IF ans.r = "connect" THEN RegrabFail("connect", tbl)
    ELSE IF ans.r = "noitem" \/ number \notin Blocks THEN RegrabFail("grab", tbl)
    ELSE IF ans.r = "put" THEN RegrabFail("put", tbl)
    ELSE [ok |-> TRUE, err |-> "none", tbl |-> tbl,
          header |-> ChainHeader(number, ans.seal)]
\* regrab_header: Ok(header) after the header was put under info.header.number
regrab_header(tbl, cfg, number, ans) ==
    IF ~cfg.grab_headers THEN RegrabFail("disabled", tbl)
    ELSE IF ans.r = "connect" THEN RegrabFail("connect", tbl)
    ELSE IF ans.r = "noitem" \/ number \notin Blocks THEN RegrabFail("grab", tbl)
    ELSE IF ans.r = "put" THEN RegrabFail("put", tbl)
    ELSE LET h == ChainHeader(number, ans.seal)
         IN  [ok |-> TRUE, err |-> "none",
              tbl |-> [tbl EXCEPT ![h.number] = encode(h)], header |-> h]

\* variant: the para re-fetch does not test grab_para_headers (ruled out by
\* C15)
regrab_para_header_unguarded(tbl, cfg, number, ans) ==
    IF ans.r = "connect" THEN RegrabFail("connect", tbl)
    ELSE IF ans.r = "noitem" \/ number \notin Blocks THEN RegrabFail("grab", tbl)
    ELSE IF ans.r = "put" THEN RegrabFail("put", tbl)
    ELSE LET h == ChainHeader(number, ans.seal)
         IN  [ok |-> TRUE, err |-> "none",
              tbl |-> [tbl EXCEPT ![h.number] = encode(h)], header |-> h]
\* regrab_para_header
regrab_para_header(tbl, cfg, number, ans) ==
    IF ~cfg.grab_para_headers THEN RegrabFail("disabled", tbl)
    ELSE IF ans.r = "connect" THEN RegrabFail("connect", tbl)
    ELSE IF ans.r = "noitem" \/ number \notin Blocks THEN RegrabFail("grab", tbl)
    ELSE IF ans.r = "put" THEN RegrabFail("put", tbl)
    ELSE LET h == ChainHeader(number, ans.seal)
         IN  [ok |-> TRUE, err |-> "none",
              tbl |-> [tbl EXCEPT ![h.number] = encode(h)], header |-> h]

\* -------------------------------------------- check_and_fix_headers
\* what the last loop iteration did: the re-fetch after a decode failure,
\* the numbers re-fetched after a mismatch and the headers they returned,
\* the keys written, the parent-hash comparisons made
NoStep ==
    [block |-> None, decode_failed |-> FALSE, mismatch |-> FALSE,
     codec_fetched |-> <<>>, fix_fetched |-> <<>>, fix_headers |-> <<>>,
     written |-> <<>>, compared |-> 0]
NoResponse ==
    [from |-> 0, to |-> 0, mismatches |-> 0, codec_errors |-> 0, all_ok |-> FALSE]
\* no call is running (tbl0 is history: the table as the call found it)
IdleCheck ==
    [cpc |-> "idle", what |-> "-", from |-> 0, to_arg |-> None, count_arg |-> None,
     to |-> 0, block |-> 0, prev |-> Absent, mismatches |-> 0, codec_errors |-> 0,
     err |-> "none", response |-> NoResponse, step |-> NoStep,
     tbl0 |-> EmptyTable]
\* a call with its arguments, before its first statement
CallCheck(what, from, to, count) ==
    [IdleCheck EXCEPT !.cpc = "call", !.what = what, !.from = from,
                      !.to_arg = to, !.count_arg = count]

\* `prev.hash() != cur_header.parent_hash`, on the stored records
first_mismatch(prev, cur) == Hash(prev) # cur.parent_hash
\* variant: the re-fetched pair is taken as linked without comparing
\* (ruled out by C7)
still_mismatch_never(prev, cur) == FALSE
\* ... and again on the two re-fetched headers
still_mismatch(prev, cur) == Hash(prev) # cur.parent_hash

\* the outcome of one iteration of the loop over (from + 1)..=to
BlockRes(status, tbl, prev, step, used) ==
    [status |-> status, tbl |-> tbl, prev |-> prev, step |-> step, used |-> used]

\* variant: a missing record is re-fetched like an undecodable one (ruled out
\* by C23)
check_block_refetch_missing(what, tbl, cfg, prev, block, a1, a2, a3) ==
    LET regrab(t, n, a) == IF what = "relay" THEN regrab_header(t, cfg, n, a)
                           ELSE regrab_para_header(t, cfg, n, a)
        enabled == IF what = "relay" THEN cfg.grab_headers ELSE cfg.grab_para_headers
        cost(a) == IF enabled THEN AnsFault(a) ELSE 0
        data == db_get(tbl, block)
        d    == decode_header(data)
        r1   == regrab(tbl, block, a1)
        cur1 == IF d.ok THEN d.header ELSE r1.header
        tbl1 == IF d.ok THEN tbl ELSE r1.tbl
        f1   == IF d.ok THEN <<>> ELSE <<block>>
        w1   == IF d.ok THEN <<>> ELSE <<cur1.number>>
        u1   == IF d.ok THEN 0 ELSE cost(a1)
        st1  == [NoStep EXCEPT !.block = block, !.decode_failed = ~d.ok,
                               !.codec_fetched = f1, !.written = w1,
                               !.compared = 1]
        r2   == regrab(tbl1, prev.number, a2)
        r3   == regrab(r2.tbl, cur1.number, a3)
    IN
    IF FALSE THEN
        BlockRes("not_found", tbl, prev, [NoStep EXCEPT !.block = block], 0)
    ELSE IF ~d.ok /\ ~r1.ok THEN
        BlockRes(r1.err, tbl, prev,
                 [st1 EXCEPT !.written = <<>>, !.compared = 0], u1)
    ELSE IF ~first_mismatch(prev, cur1) THEN
        BlockRes("ok", tbl1, cur1, st1, u1)
    ELSE IF ~r2.ok THEN
        BlockRes(r2.err, tbl1, prev,
                 [st1 EXCEPT !.mismatch = TRUE,
                             !.fix_fetched = <<prev.number>>], u1 + cost(a2))
    ELSE IF ~r3.ok THEN
        BlockRes(r3.err, r2.tbl, r2.header,
                 [st1 EXCEPT !.mismatch = TRUE,
                             !.fix_fetched = <<prev.number, cur1.number>>,
                             !.fix_headers = <<r2.header>>,
                             !.written = w1 \o <<r2.header.number>>],
                 u1 + cost(a2) + cost(a3))
    ELSE LET st3 == [st1 EXCEPT !.mismatch = TRUE,
                         !.fix_fetched = <<prev.number, cur1.number>>,
                         !.fix_headers = <<r2.header, r3.header>>,
                         !.written = w1 \o <<r2.header.number, r3.header.number>>,
                         !.compared = 2]
         IN  IF still_mismatch(r2.header, r3.header) THEN
                 BlockRes("cannot_fix", r3.tbl, r2.header, st3,
                          u1 + cost(a2) + cost(a3))
             ELSE
                 BlockRes("ok", r3.tbl, r3.header, st3, u1 + cost(a2) + cost(a3))
\* One iteration of the loop for `block`: a1 answers the re-fetch after a
\* decode failure, a2 and a3 the re-fetches of prev and cur after a mismatch.
check_block(what, tbl, cfg, prev, block, a1, a2, a3) ==
    LET regrab(t, n, a) == IF what = "relay" THEN regrab_header(t, cfg, n, a)
                           ELSE regrab_para_header(t, cfg, n, a)
        enabled == IF what = "relay" THEN cfg.grab_headers ELSE cfg.grab_para_headers
        cost(a) == IF enabled THEN AnsFault(a) ELSE 0
        data == db_get(tbl, block)
        d    == decode_header(data)
        r1   == regrab(tbl, block, a1)
        cur1 == IF d.ok THEN d.header ELSE r1.header
        tbl1 == IF d.ok THEN tbl ELSE r1.tbl
        f1   == IF d.ok THEN <<>> ELSE <<block>>
        w1   == IF d.ok THEN <<>> ELSE <<cur1.number>>
        u1   == IF d.ok THEN 0 ELSE cost(a1)
        st1  == [NoStep EXCEPT !.block = block, !.decode_failed = ~d.ok,
                               !.codec_fetched = f1, !.written = w1,
                               !.compared = 1]
        r2   == regrab(tbl1, prev.number, a2)
        r3   == regrab(r2.tbl, cur1.number, a3)
    IN
    IF data.kind = "absent" THEN
        BlockRes("not_found", tbl, prev, [NoStep EXCEPT !.block = block], 0)
    ELSE IF ~d.ok /\ ~r1.ok THEN
        BlockRes(r1.err, tbl, prev,
                 [st1 EXCEPT !.written = <<>>, !.compared = 0], u1)
    ELSE IF ~first_mismatch(prev, cur1) THEN
        BlockRes("ok", tbl1, cur1, st1, u1)
    ELSE IF ~r2.ok THEN
        BlockRes(r2.err, tbl1, prev,
                 [st1 EXCEPT !.mismatch = TRUE,
                             !.fix_fetched = <<prev.number>>], u1 + cost(a2))
    ELSE IF ~r3.ok THEN
        BlockRes(r3.err, r2.tbl, r2.header,
                 [st1 EXCEPT !.mismatch = TRUE,
                             !.fix_fetched = <<prev.number, cur1.number>>,
                             !.fix_headers = <<r2.header>>,
                             !.written = w1 \o <<r2.header.number>>],
                 u1 + cost(a2) + cost(a3))
    ELSE LET st3 == [st1 EXCEPT !.mismatch = TRUE,
                         !.fix_fetched = <<prev.number, cur1.number>>,
                         !.fix_headers = <<r2.header, r3.header>>,
                         !.written = w1 \o <<r2.header.number, r3.header.number>>,
                         !.compared = 2]
         IN  IF still_mismatch(r2.header, r3.header) THEN
                 BlockRes("cannot_fix", r3.tbl, r2.header, st3,
                          u1 + cost(a2) + cost(a3))
             ELSE
                 BlockRes("ok", r3.tbl, r3.header, st3, u1 + cost(a2) + cost(a3))

\* the table a call for `what` works on
TableOf(what) == IF what = "relay" THEN headers ELSE para_headers

\* variant: the record at `from` is loaded before the range is tested
\* (ruled out by C17)
CheckBegin_read_first ==
    /\ chk.cpc = "call"
    /\ LET to   == unwrap_or(chk.to_arg, chk.from + unwrap_or(chk.count_arg, 1))
           data == db_get(TableOf(chk.what), chk.from)
           d    == decode_header(data)
           t0   == TableOf(chk.what)
           fail(e) == [chk EXCEPT !.cpc = "done", !.to = to, !.err = e, !.tbl0 = t0]
       IN  chk' =
             IF chk.what \notin {"relay", "para"} THEN fail("unknown_type")
             ELSE IF data.kind = "absent" THEN fail("not_found")
             ELSE IF ~d.ok THEN fail("decode_from")
             ELSE IF to <= chk.from THEN fail("invalid_range")
             ELSE [chk EXCEPT !.cpc = "loop", !.to = to, !.prev = d.header,
                              !.block = chk.from + 1, !.tbl0 = t0]
    /\ UNCHANGED <<config, store_vars, metadata, cursor_vars, LATEST_JUSTFICATION,
                   pc, latest_finalized, req, err, faults, hist_vars>>
    /\ UNCHANGED <<first_tick, item_justified, contract_vars, api_vars>>
\* check_and_fix_headers up to the loop: the range, the stream kind, the
\* record at `from`
CheckBegin ==
    /\ chk.cpc = "call"
    /\ LET to   == unwrap_or(chk.to_arg, chk.from + unwrap_or(chk.count_arg, 1))
           data == db_get(TableOf(chk.what), chk.from)
           d    == decode_header(data)
           t0   == TableOf(chk.what)
           fail(e) == [chk EXCEPT !.cpc = "done", !.to = to, !.err = e, !.tbl0 = t0]
       IN  chk' =
             IF to <= chk.from THEN fail("invalid_range")
             ELSE IF chk.what \notin {"relay", "para"} THEN fail("unknown_type")
             ELSE IF data.kind = "absent" THEN fail("not_found")
             ELSE IF ~d.ok THEN fail("decode_from")
             ELSE [chk EXCEPT !.cpc = "loop", !.to = to, !.prev = d.header,
                              !.block = chk.from + 1, !.tbl0 = t0]
    /\ UNCHANGED <<config, store_vars, metadata, cursor_vars, LATEST_JUSTFICATION,
                   pc, latest_finalized, req, err, faults, hist_vars>>
    /\ UNCHANGED <<first_tick, item_justified, contract_vars, api_vars>>

\* the answers an iteration can consume: a re-fetch that is not made gets
\* the plain answer
PlainAnswer == [r |-> "ok", seal |-> "A"]
AnswersIf(needed) == IF needed THEN Answers ELSE {PlainAnswer}
\* the loop iteration for chk.block re-fetches after a decode failure
NeedsCodecRefetch == ~decode_header(db_get(TableOf(chk.what), chk.block)).ok
\* ... and re-fetches prev (then cur) after a mismatch
NeedsPrevRefetch(a1) ==
    check_block(chk.what, TableOf(chk.what), config, chk.prev, chk.block,
                a1, [r |-> "connect", seal |-> "-"], PlainAnswer).step.mismatch
NeedsCurRefetch(a1, a2) ==
    Len(check_block(chk.what, TableOf(chk.what), config, chk.prev, chk.block,
                    a1, a2, [r |-> "connect", seal |-> "-"]).step.fix_fetched) = 2

\* one iteration of the loop
CheckBlock ==
    /\ chk.cpc = "loop"
    /\ chk.block <= chk.to
    /\ \E a1 \in AnswersIf(NeedsCodecRefetch) :
       \E a2 \in AnswersIf(NeedsPrevRefetch(a1)) :
       \E a3 \in AnswersIf(NeedsCurRefetch(a1, a2)) :
         LET res == check_block(chk.what, TableOf(chk.what), config, chk.prev,
                                chk.block, a1, a2, a3)
             cnt == [chk EXCEPT
                       !.codec_errors = @ + (IF res.step.decode_failed THEN 1 ELSE 0),
                       !.mismatches = @ + (IF res.step.mismatch THEN 1 ELSE 0),
                       !.prev = res.prev, !.step = res.step]
         IN  /\ faults + res.used <= MaxFaults
             /\ faults' = faults + res.used
             /\ IF chk.what = "relay"
                  THEN headers' = res.tbl /\ UNCHANGED para_headers
                  ELSE para_headers' = res.tbl /\ UNCHANGED headers
             /\ chk' = IF res.status = "ok"
                         THEN [cnt EXCEPT !.block = @ + 1]
                         ELSE [cnt EXCEPT !.cpc = "done", !.err = res.status]
    /\ UNCHANGED <<config, storage_changes, genesis_tbl, pmeta, metadata,
                   cursor_vars, LATEST_JUSTFICATION, pc, latest_finalized, req, err, hist_vars>>
    /\ UNCHANGED <<first_tick, item_justified, contract_vars, api_vars>>

\* variant: the summary is "All OK" whenever no mismatch was counted
\* (ruled out by C16)
CheckFinish_mismatches_only ==
    /\ chk.cpc = "loop"
    /\ chk.block > chk.to
    /\ chk' = [chk EXCEPT !.cpc = "done",
                 !.response = [from |-> chk.from, to |-> chk.to,
                               mismatches |-> chk.mismatches,
                               codec_errors |-> chk.codec_errors,
                               all_ok |-> ~(chk.mismatches > 0)]]
    /\ UNCHANGED <<config, store_vars, metadata, cursor_vars, LATEST_JUSTFICATION,
                   pc, latest_finalized, req, err, faults, hist_vars>>
    /\ UNCHANGED <<first_tick, item_justified, contract_vars, api_vars>>
\* after the loop: the summary
CheckFinish ==
    /\ chk.cpc = "loop"
    /\ chk.block > chk.to
    /\ chk' = [chk EXCEPT !.cpc = "done",
                 !.response = [from |-> chk.from, to |-> chk.to,
                               mismatches |-> chk.mismatches,
                               codec_errors |-> chk.codec_errors,
                               all_ok |-> ~(chk.mismatches > 0 \/ chk.codec_errors > 0)]]
    /\ UNCHANGED <<config, store_vars, metadata, cursor_vars, LATEST_JUSTFICATION,
                   pc, latest_finalized, req, err, faults, hist_vars>>
    /\ UNCHANGED <<first_tick, item_justified, contract_vars, api_vars>>

\* ----------------------------------------------- damage to stored records
\* kinds of damage to the record of block k: no record, undecodable bytes,
\* a stale header, or bit rot that leaves number m in the number field (m = k:
\* the rot is elsewhere in the header)
RotNumbers(k) == {k, (k + 2) % (MaxBlock + 1)}
Damages(k) ==
    {[d |-> x, m |-> k] : x \in {"absent", "bad", "stale"}}
      \cup {[d |-> "rot", m |-> m] : m \in RotNumbers(k)}
Damaged(k, dmg) ==
    IF dmg.d = "absent" THEN Absent
    ELSE IF dmg.d = "bad" THEN Bad
    ELSE IF dmg.d = "stale" THEN ChainHeader(k, "B")
    ELSE Rotten(k, dmg.m)
\* the ways to damage the records of D
DamageChoices(D) ==
    {f \in [D -> UNION {Damages(k) : k \in D}] : \A k \in D : f[k] \in Damages(k)}

\* ------------------------------------------------------------ the crawl loop
\* run, before its loop: load Metadata, derive the three cursors
\* variant: the relay cursor starts at the persisted highest itself (ruled out
\* by C25)
LoadedHeader_same(m, cfg) ==
    IF m.higest.header # None THEN m.higest.header ELSE cfg.genesis_block
LoadedHeader(m, cfg) ==
    IF m.higest.header # None THEN m.higest.header + 1 ELSE cfg.genesis_block
LoadedParaHeader(m) ==
    IF m.higest.para_header # None THEN m.higest.para_header + 1 ELSE 0
LoadedDelta(m) ==
    IF m.higest.storage_changes # None THEN m.higest.storage_changes + 1 ELSE 0

\* the process state right after run() started on the persisted Metadata pm
Started(pm) ==
    /\ metadata' = pm
    /\ next_header' = LoadedHeader(pm, config)
    /\ next_para_header' = LoadedParaHeader(pm)
    /\ next_delta' = LoadedDelta(pm)
    /\ LATEST_JUSTFICATION' = U32MAX
    /\ pc' = "grab"
    /\ latest_finalized' = None
    /\ req' = NoRequest
    /\ err' = "none"
    /\ chk' = IdleCheck
    /\ genesis_fetches' = 0 /\ genesis_writes' = 0 /\ grab_failed' = FALSE
    /\ first_tick' = FALSE /\ item_justified' = FALSE

Init ==
    /\ config \in Configs
    /\ headers = EmptyTable
    /\ para_headers = EmptyTable
    /\ storage_changes = {}
    /\ genesis_tbl = {}
    /\ pmeta = DefaultMetadata
    /\ metadata = DefaultMetadata
    /\ next_header = LoadedHeader(DefaultMetadata, config)
    /\ next_para_header = LoadedParaHeader(DefaultMetadata)
    /\ next_delta = LoadedDelta(DefaultMetadata)
    /\ LATEST_JUSTFICATION = U32MAX
    /\ pc = "grab"
    /\ latest_finalized = None
    /\ req = NoRequest
    /\ err = "none"
    /\ chk = IdleCheck
    /\ faults = 0
    /\ genesis_fetches = 0 /\ genesis_writes = 0 /\ grab_failed = FALSE
    /\ first_tick = TRUE /\ item_justified = FALSE
    /\ Deployed
    /\ ManagerStarted

\* one more environment fault fits the budget
Fault == faults < MaxFaults /\ faults' = faults + 1
NoFault == faults' = faults

\* variant: run() returns the error of Crawler::grab instead of logging it
\* (ruled out by C13)
Failed_exit(e) == err' = e /\ pc' = "exit" /\ req' = NoRequest
\* a call of the loop returned Err(e): run() logs it and sleeps
Failed(e) == err' = e /\ pc' = "sleep_outer" /\ req' = NoRequest

\* variant: the bootstrap does not look at metadata.genesis (ruled out by C9)
genesis_known_never(meta, cfg) == FALSE
\* `metadata.genesis.contains(&config.genesis_block)`
genesis_known(meta, cfg) == cfg.genesis_block \in meta.genesis

\* Crawler::grab: connect to both nodes, bootstrap the genesis, then run
Grab ==
    /\ pc = "grab"
    /\ UNCHANGED <<config, headers, para_headers, storage_changes, cursor_vars,
                   LATEST_JUSTFICATION, latest_finalized, chk, grab_failed>>
    /\ \/ \* subxt_connect fails
          /\ Fault /\ Failed("connect")
          /\ UNCHANGED <<genesis_tbl, pmeta, metadata, genesis_fetches, genesis_writes>>
       \/ \* the genesis is in metadata.genesis already
          /\ genesis_known(metadata, config)
          /\ NoFault /\ pc' = "grab_headers"
          /\ UNCHANGED <<genesis_tbl, pmeta, metadata, req, err,
                         genesis_fetches, genesis_writes>>
       \/ \* fetch_genesis_info fails
          /\ ~genesis_known(metadata, config)
          /\ Fault /\ Failed("fetch_genesis")
          /\ UNCHANGED <<genesis_tbl, pmeta, metadata, genesis_fetches, genesis_writes>>
       \/ \* put_genesis fails
          /\ ~genesis_known(metadata, config)
          /\ Fault /\ Failed("put")
          /\ genesis_fetches' = genesis_fetches + 1
          /\ UNCHANGED <<genesis_tbl, pmeta, metadata, genesis_writes>>
       \/ \* put_metadata fails
          /\ ~genesis_known(metadata, config)
          /\ Fault /\ Failed("persist")
          /\ genesis_fetches' = genesis_fetches + 1
          /\ genesis_tbl' = genesis_tbl \cup {config.genesis_block}
          /\ genesis_writes' = genesis_writes + 1
          /\ metadata' = meta_put_genesis(metadata, config.genesis_block)
          /\ UNCHANGED pmeta
       \/ \* the bootstrap succeeds
          /\ ~genesis_known(metadata, config)
          /\ NoFault /\ pc' = "grab_headers"
          /\ genesis_fetches' = genesis_fetches + 1
          /\ genesis_tbl' = genesis_tbl \cup {config.genesis_block}
          /\ genesis_writes' = genesis_writes + 1
          /\ metadata' = meta_put_genesis(metadata, config.genesis_block)
          /\ pmeta' = metadata'
          /\ UNCHANGED <<req, err>>
    /\ UNCHANGED <<first_tick, item_justified, contract_vars, api_vars>>

\* variant: the height is persisted first and the process dies before the
\* blob is written (ruled out by C26)
GrabCrash_height_first ==
    /\ pc = "grab"
    /\ ~genesis_known(metadata, config)
    /\ Fault
    /\ pmeta' = meta_put_genesis(metadata, config.genesis_block)
    /\ Started(pmeta')
    /\ UNCHANGED <<config, headers, para_headers, storage_changes, genesis_tbl>>
    /\ UNCHANGED <<contract_vars, api_vars>>
\* the process dies between put_genesis and put_metadata and is started again
GrabCrash ==
    /\ pc = "grab"
    /\ ~genesis_known(metadata, config)
    /\ Fault
    /\ genesis_tbl' = genesis_tbl \cup {config.genesis_block}
    /\ Started(pmeta)
    /\ UNCHANGED <<config, headers, para_headers, storage_changes, pmeta>>
    /\ UNCHANGED <<contract_vars, api_vars>>

\* variant: the relay gate leaves out justification_interval (ruled out by C10)
relay_admitted_no_interval(finalized, next, cfg) == ~(finalized < next)
\* the admission tests of the three grab stages
relay_admitted(finalized, next, cfg) ==
    ~(finalized < next + cfg.justification_interval)
para_admitted(finalized, next) == ~(finalized < next)
delta_admitted(finalized, next) == ~(finalized < next)

\* what an on_item closure leaves behind: fail says which store write failed
ItemRes(e, tbl, meta, pm, next) ==
    [err |-> e, tbl |-> tbl, metadata |-> meta, pmeta |-> pm, next |-> next]

\* variant: Metadata is updated and persisted before the header is put
\* (ruled out by C2)
header_on_item_persist_first(tbl, meta, pm, next, info, fail) ==
    LET stored == [tbl EXCEPT ![info.number] = encode(info)]
        updated == meta_update(meta, "header", info.number)
    IN  IF fail = "persist" THEN ItemRes("persist", tbl, updated, pm, next)
        ELSE IF fail = "put" THEN ItemRes("put", tbl, updated, updated, next)
        ELSE ItemRes("none", stored, updated, updated, info.number + 1)
\* variant: the closure stores the number of every item (ruled out by C19)
justification_on_item_always(marker, info, justification) == info.number
\* the on_item closure of grab_headers, first statement:
\* `if info.justification.is_some() { LATEST_JUSTFICATION.store(number) }`
justification_on_item(marker, info, justification) ==
    IF justification THEN info.number ELSE marker
\* the on_item closure of grab_headers (after the justification marker)
header_on_item(tbl, meta, pm, next, info, fail) ==
    LET stored == [tbl EXCEPT ![info.number] = encode(info)]
        updated == meta_update(meta, "header", info.number)
    IN  IF fail = "put" THEN ItemRes("put", tbl, meta, pm, next)
        ELSE IF fail = "persist" THEN ItemRes("persist", stored, updated, pm, next)
        ELSE ItemRes("none", stored, updated, updated, info.number + 1)

\* variant: the cursor moves before Metadata is persisted (ruled out by C3)
para_header_on_item_advance_early(tbl, meta, pm, next, info, fail) ==
    LET stored == [tbl EXCEPT ![info.number] = encode(info)]
        updated == meta_update(meta, "para_header", info.number)
    IN  IF fail = "put" THEN ItemRes("put", tbl, meta, pm, next)
        ELSE IF fail = "persist"
          THEN ItemRes("persist", stored, updated, pm, info.number + 1)
        ELSE ItemRes("none", stored, updated, updated, info.number + 1)
\* the on_item closure of grab_para_headers
para_header_on_item(tbl, meta, pm, next, info, fail) ==
    LET stored == [tbl EXCEPT ![info.number] = encode(info)]
        updated == meta_update(meta, "para_header", info.number)
    IN  IF fail = "put" THEN ItemRes("put", tbl, meta, pm, next)
        ELSE IF fail = "persist" THEN ItemRes("persist", stored, updated, pm, next)
        ELSE ItemRes("none", stored, updated, updated, info.number + 1)

\* variant: the cursor is left on the block just ingested (ruled out by C5)
storage_changes_on_item_stay(tbl, meta, pm, next, number, fail) ==
    LET stored == tbl \cup {number}
        updated == meta_update(meta, "storage_changes", number)
    IN  IF fail = "put" THEN ItemRes("put", tbl, meta, pm, next)
        ELSE IF fail = "persist" THEN ItemRes("persist", stored, updated, pm, next)
        ELSE ItemRes("none", stored, updated, updated, number)
\* the on_item closure of grab_storage_changes
storage_changes_on_item(tbl, meta, pm, next, number, fail) ==
    LET stored == tbl \cup {number}
        updated == meta_update(meta, "storage_changes", number)
    IN  IF fail = "put" THEN ItemRes("put", tbl, meta, pm, next)
        ELSE IF fail = "persist" THEN ItemRes("persist", stored, updated, pm, next)
        ELSE ItemRes("none", stored, updated, updated, number + 1)

\* the store writes of a closure that all succeed, or the one that fails
Fails == {"none", "put", "persist"}
FailCost(fail) == IF fail = "none" THEN 0 ELSE 1

\* Crawler::grab_headers up to the upstream request
GrabHeaders ==
    /\ pc = "grab_headers"
    /\ UNCHANGED <<config, store_vars, metadata, cursor_vars, LATEST_JUSTFICATION,
                   chk, genesis_fetches, genesis_writes>>
    /\ \/ \* finalized_header_number fails
          /\ Fault /\ Failed("finalized") /\ grab_failed' = TRUE
          /\ latest_finalized' = None
       \/ \E finalized \in Blocks :
            /\ NoFault
            /\ latest_finalized' = finalized
            /\ UNCHANGED <<err, grab_failed>>
            /\ IF ~config.grab_headers THEN
                   pc' = "grab_para_headers" /\ UNCHANGED req
               ELSE IF ~relay_admitted(finalized, next_header, config) THEN
                   pc' = "grab_para_headers" /\ UNCHANGED req
               ELSE
                   /\ pc' = "header_items"
                   /\ req' = [start |-> next_header, count |-> U32MAX]
    /\ UNCHANGED <<first_tick, item_justified, contract_vars, api_vars>>

\* the on_item closure of grab_headers runs for the next header the node serves
HeaderItem ==
    /\ pc = "header_items"
    /\ next_header <= MaxBlock
    /\ \E seal \in Seals, justification \in BOOLEAN, fail \in Fails :
         LET info == ChainHeader(next_header, seal)
             stale == IF seal = "A" THEN 0 ELSE 1
             res == header_on_item(headers, metadata, pmeta, next_header, info, fail)
         IN
         /\ faults + stale + FailCost(fail) <= MaxFaults
         /\ faults' = faults + stale + FailCost(fail)
         /\ LATEST_JUSTFICATION' =
              justification_on_item(LATEST_JUSTFICATION, info, justification)
         /\ item_justified' = justification
         /\ headers' = res.tbl
         /\ metadata' = res.metadata
         /\ pmeta' = res.pmeta
         /\ next_header' = res.next
         /\ IF res.err = "none"
              THEN UNCHANGED <<pc, req, err, grab_failed>>
              ELSE Failed(res.err) /\ grab_failed' = TRUE
    /\ UNCHANGED <<config, para_headers, storage_changes, genesis_tbl,
                   next_para_header, next_delta, latest_finalized, chk,
                   genesis_fetches, genesis_writes>>
    /\ UNCHANGED <<first_tick, contract_vars, api_vars>>

\* the process dies inside the closure, after put_header and before
\* put_metadata, and is started again
HeaderItemCrash ==
    /\ pc = "header_items"
    /\ next_header <= MaxBlock
    /\ Fault
    /\ headers' = header_on_item(headers, metadata, pmeta, next_header,
                                 ChainHeader(next_header, "A"), "persist").tbl
    /\ Started(pmeta)
    /\ UNCHANGED <<config, para_headers, storage_changes, genesis_tbl, pmeta>>
    /\ UNCHANGED <<contract_vars, api_vars>>

\* cache::grab_headers returns: Ok when the node has no further header to
\* serve, Err when a request to the node fails
HeadersDone ==
    /\ pc = "header_items"
    /\ latest_finalized' = None
    /\ UNCHANGED <<config, store_vars, metadata, cursor_vars, LATEST_JUSTFICATION,
                   chk, genesis_fetches, genesis_writes>>
    /\ \/ /\ NoFault /\ pc' = "grab_para_headers" /\ req' = NoRequest
          /\ UNCHANGED <<err, grab_failed>>
       \/ /\ Fault /\ Failed("upstream") /\ grab_failed' = TRUE
    /\ UNCHANGED <<first_tick, item_justified, contract_vars, api_vars>>

\* variant: the para stage does not look at the enable flag (ruled out by C28)
GrabParaHeaders_ignore_flag ==
    /\ pc = "grab_para_headers"
    /\ UNCHANGED <<config, store_vars, metadata, cursor_vars, LATEST_JUSTFICATION,
                   chk, genesis_fetches, genesis_writes>>
    /\ \/ /\ Fault /\ Failed("finalized") /\ grab_failed' = TRUE
          /\ latest_finalized' = None
       \/ \E finalized \in 0..MaxParaFinalized :
            /\ NoFault
            /\ latest_finalized' = finalized
            /\ UNCHANGED <<err, grab_failed>>
            /\ IF FALSE THEN
                   pc' = "grab_storage_changes" /\ UNCHANGED req
               ELSE IF ~para_admitted(finalized, next_para_header) THEN
                   pc' = "grab_storage_changes" /\ UNCHANGED req
               ELSE
                   /\ pc' = "para_header_items"
                   /\ req' = [start |-> next_para_header,
                              count |-> finalized - next_para_header + 1]
    /\ UNCHANGED <<first_tick, item_justified, contract_vars, api_vars>>
\* Crawler::grab_para_headers up to the upstream request
GrabParaHeaders ==
    /\ pc = "grab_para_headers"
    /\ UNCHANGED <<config, store_vars, metadata, cursor_vars, LATEST_JUSTFICATION,
                   chk, genesis_fetches, genesis_writes>>
    /\ \/ /\ Fault /\ Failed("finalized") /\ grab_failed' = TRUE
          /\ latest_finalized' = None
       \/ \E finalized \in 0..MaxParaFinalized :
            /\ NoFault
            /\ latest_finalized' = finalized
            /\ UNCHANGED <<err, grab_failed>>
            /\ IF ~config.grab_para_headers THEN
                   pc' = "grab_storage_changes" /\ UNCHANGED req
               ELSE IF ~para_admitted(finalized, next_para_header) THEN
                   pc' = "grab_storage_changes" /\ UNCHANGED req
               ELSE
                   /\ pc' = "para_header_items"
                   /\ req' = [start |-> next_para_header,
                              count |-> finalized - next_para_header + 1]
    /\ UNCHANGED <<first_tick, item_justified, contract_vars, api_vars>>

\* the on_item closure of grab_para_headers runs for the next of the `count`
\* headers
ParaHeaderItem ==
    /\ pc = "para_header_items"
    /\ next_para_header < req.start + req.count
    /\ \E seal \in Seals, fail \in Fails :
         LET info == ChainHeader(next_para_header, seal)
             stale == IF seal = "A" THEN 0 ELSE 1
             res == para_header_on_item(para_headers, metadata, pmeta,
                                        next_para_header, info, fail)
         IN
         /\ faults + stale + FailCost(fail) <= MaxFaults
         /\ faults' = faults + stale + FailCost(fail)
         /\ para_headers' = res.tbl
         /\ metadata' = res.metadata
         /\ pmeta' = res.pmeta
         /\ next_para_header' = res.next
         /\ IF res.err = "none"
              THEN UNCHANGED <<pc, req, err, grab_failed>>
              ELSE Failed(res.err) /\ grab_failed' = TRUE
    /\ UNCHANGED <<config, headers, storage_changes, genesis_tbl,
                   next_header, next_delta, LATEST_JUSTFICATION, latest_finalized,
                   chk, genesis_fetches, genesis_writes>>
    /\ UNCHANGED <<first_tick, item_justified, contract_vars, api_vars>>

ParaHeaderItemCrash ==
    /\ pc = "para_header_items"
    /\ next_para_header < req.start + req.count
    /\ Fault
    /\ para_headers' =
         para_header_on_item(para_headers, metadata, pmeta, next_para_header,
                             ChainHeader(next_para_header, "A"), "persist").tbl
    /\ Started(pmeta)
    /\ UNCHANGED <<config, headers, storage_changes, genesis_tbl, pmeta>>
    /\ UNCHANGED <<contract_vars, api_vars>>

\* cache::grab_para_headers returns: Ok after `count` items, Err when a
\* request to the node fails
ParaHeadersDone ==
    /\ pc = "para_header_items"
    /\ latest_finalized' = None
    /\ UNCHANGED <<config, store_vars, metadata, cursor_vars, LATEST_JUSTFICATION,
                   chk, genesis_fetches, genesis_writes>>
    /\ \/ /\ next_para_header = req.start + req.count
          /\ NoFault /\ pc' = "grab_storage_changes" /\ req' = NoRequest
          /\ UNCHANGED <<err, grab_failed>>
       \/ /\ next_para_header < req.start + req.count
          /\ Fault /\ Failed("upstream") /\ grab_failed' = TRUE
    /\ UNCHANGED <<first_tick, item_justified, contract_vars, api_vars>>

\* Crawler::grab_storage_changes up to the upstream request
GrabStorageChanges ==
    /\ pc = "grab_storage_changes"
    /\ UNCHANGED <<config, store_vars, metadata, cursor_vars, LATEST_JUSTFICATION,
                   chk, genesis_fetches, genesis_writes>>
    /\ \/ /\ Fault /\ Failed("finalized") /\ grab_failed' = TRUE
          /\ latest_finalized' = None
       \/ \E finalized \in 0..MaxParaFinalized :
            /\ NoFault
            /\ latest_finalized' = finalized
            /\ UNCHANGED <<err, grab_failed>>
            /\ IF ~config.grab_storage_changes THEN
                   pc' = "check_relay" /\ UNCHANGED req
               ELSE IF ~delta_admitted(finalized, next_delta) THEN
                   pc' = "check_relay" /\ UNCHANGED req
               ELSE
                   /\ pc' = "storage_changes_items"
                   /\ req' = [start |-> next_delta,
                              count |-> finalized - next_delta + 1]
    /\ UNCHANGED <<first_tick, item_justified, contract_vars, api_vars>>

\* the on_item closure of grab_storage_changes runs for the next block
StorageChangesItem ==
    /\ pc = "storage_changes_items"
    /\ next_delta < req.start + req.count
    /\ \E fail \in Fails :
         LET res == storage_changes_on_item(storage_changes, metadata, pmeta,
                                            next_delta, next_delta, fail)
         IN
         /\ faults + FailCost(fail) <= MaxFaults
         /\ faults' = faults + FailCost(fail)
         /\ storage_changes' = res.tbl
         /\ metadata' = res.metadata
         /\ pmeta' = res.pmeta
         /\ next_delta' = res.next
         /\ IF res.err = "none"
              THEN UNCHANGED <<pc, req, err, grab_failed>>
              ELSE Failed(res.err) /\ grab_failed' = TRUE
    /\ UNCHANGED <<config, headers, para_headers, genesis_tbl,
                   next_header, next_para_header, LATEST_JUSTFICATION,
                   latest_finalized, chk, genesis_fetches, genesis_writes>>
    /\ UNCHANGED <<first_tick, item_justified, contract_vars, api_vars>>

StorageChangesItemCrash ==
    /\ pc = "storage_changes_items"
    /\ next_delta < req.start + req.count
    /\ Fault
    /\ storage_changes' =
         storage_changes_on_item(storage_changes, metadata, pmeta,
                                 next_delta, next_delta, "persist").tbl
    /\ Started(pmeta)
    /\ UNCHANGED <<config, headers, para_headers, genesis_tbl, pmeta>>
    /\ UNCHANGED <<contract_vars, api_vars>>

\* cache::grab_storage_changes returns
StorageChangesDone ==
    /\ pc = "storage_changes_items"
    /\ latest_finalized' = None
    /\ UNCHANGED <<config, store_vars, metadata, cursor_vars, LATEST_JUSTFICATION,
                   chk, genesis_fetches, genesis_writes>>
    /\ \/ /\ next_delta = req.start + req.count
          /\ NoFault /\ pc' = "check_relay" /\ req' = NoRequest
          /\ UNCHANGED <<err, grab_failed>>
       \/ /\ next_delta < req.start + req.count
          /\ Fault /\ Failed("upstream") /\ grab_failed' = TRUE
    /\ UNCHANGED <<first_tick, item_justified, contract_vars, api_vars>>

\* variant: the window is not clamped to recent_imported (ruled out by C4)
relay_window_unclamped(meta, cfg) ==
    LET relay_start == unwrap_or(meta.checked.header, cfg.genesis_block)
        relay_end == relay_start + cfg.check_batch
    IN  [start |-> relay_start, end |-> relay_end]
\* the window continue_check_headers checks for the relay stream
relay_window(meta, cfg) ==
    LET relay_start == unwrap_or(meta.checked.header, cfg.genesis_block)
        relay_end == Min(unwrap_or(meta.recent_imported.header, 0),
                         relay_start + cfg.check_batch)
    IN  [start |-> relay_start, end |-> relay_end]
\* variant: the para window is not clamped to recent_imported
\* (ruled out by C12)
para_window_unclamped(meta, cfg) ==
    LET para_start == unwrap_or(meta.checked.para_header, 0)
        para_end == para_start + cfg.check_batch
    IN  [start |-> para_start, end |-> para_end]
\* ... and for the para stream
para_window(meta, cfg) ==
    LET para_start == unwrap_or(meta.checked.para_header, 0)
        para_end == Min(unwrap_or(meta.recent_imported.para_header, 0),
                        para_start + cfg.check_batch)
    IN  [start |-> para_start, end |-> para_end]
\* variant: a relay pass leaves checked.header as it was (ruled out by C18)
relay_checked_never(meta, check_err, relay_end) == meta
\* `check_and_fix_headers(..).await?; metadata.checked.header = Some(relay_end)`
relay_checked(meta, check_err, relay_end) ==
    IF check_err = "none" THEN [meta EXCEPT !.checked.header = relay_end] ELSE meta
\* variant: checked.para_header is set whatever the call returned
\* (ruled out by C6)
para_checked_always(meta, check_err, para_end) ==
    [meta EXCEPT !.checked.para_header = para_end]
para_checked(meta, check_err, para_end) ==
    IF check_err = "none" THEN [meta EXCEPT !.checked.para_header = para_end] ELSE meta

\* Crawler::continue_check_headers, relay half: the window, and the call
ContinueCheckRelay ==
    /\ pc = "check_relay"
    /\ chk.cpc = "idle"
    /\ LET w == relay_window(metadata, config)
       IN  IF w.start < w.end
             THEN chk' = CallCheck("relay", w.start, w.end, None) /\ UNCHANGED pc
             ELSE pc' = "check_para" /\ UNCHANGED chk
    /\ latest_finalized' = None
    /\ UNCHANGED <<config, store_vars, metadata, cursor_vars, LATEST_JUSTFICATION,
                   req, err, faults, hist_vars>>
    /\ UNCHANGED <<first_tick, item_justified, contract_vars, api_vars>>

\* ... the call returned: on Ok set checked.header and persist
RelayChecked ==
    /\ pc = "check_relay"
    /\ chk.cpc = "done"
    /\ chk' = IdleCheck
    /\ metadata' = relay_checked(metadata, chk.err, chk.to)
    /\ UNCHANGED <<config, headers, para_headers, storage_changes, genesis_tbl,
                   cursor_vars, LATEST_JUSTFICATION, latest_finalized, req, hist_vars>>
    /\ IF chk.err # "none" THEN
           /\ NoFault
           /\ err' = chk.err /\ pc' = "sleep_inner"
           /\ UNCHANGED pmeta
       ELSE
           \/ /\ NoFault /\ pmeta' = metadata'
              /\ pc' = "check_para" /\ UNCHANGED err
           \/ /\ Fault /\ UNCHANGED pmeta
              /\ err' = "persist" /\ pc' = "sleep_inner"
    /\ UNCHANGED <<first_tick, item_justified, contract_vars, api_vars>>

\* variant: the para half never makes its call (ruled out by C24)
ContinueCheckPara_never ==
    /\ pc = "check_para"
    /\ chk.cpc = "idle"
    /\ pc' = "sleep_inner" /\ UNCHANGED chk
    /\ UNCHANGED <<config, store_vars, metadata, cursor_vars, LATEST_JUSTFICATION,
                   latest_finalized, req, err, faults, hist_vars>>
    /\ UNCHANGED <<first_tick, item_justified, contract_vars, api_vars>>
\* Crawler::continue_check_headers, para half
ContinueCheckPara ==
    /\ pc = "check_para"
    /\ chk.cpc = "idle"
    /\ LET w == para_window(metadata, config)
       IN  IF w.start < w.end
             THEN chk' = CallCheck("para", w.start, w.end, None) /\ UNCHANGED pc
             ELSE pc' = "sleep_inner" /\ UNCHANGED chk
    /\ UNCHANGED <<config, store_vars, metadata, cursor_vars, LATEST_JUSTFICATION,
                   latest_finalized, req, err, faults, hist_vars>>
    /\ UNCHANGED <<first_tick, item_justified, contract_vars, api_vars>>

ParaChecked ==
    /\ pc = "check_para"
    /\ chk.cpc = "done"
    /\ chk' = IdleCheck
    /\ pc' = "sleep_inner"
    /\ metadata' = para_checked(metadata, chk.err, chk.to)
    /\ UNCHANGED <<config, headers, para_headers, storage_changes, genesis_tbl,
                   cursor_vars, LATEST_JUSTFICATION, latest_finalized, req, hist_vars>>
    /\ IF chk.err # "none" THEN
           /\ NoFault
           /\ err' = chk.err
           /\ UNCHANGED pmeta
       ELSE
           \/ /\ NoFault /\ pmeta' = metadata' /\ UNCHANGED err
           \/ /\ Fault /\ UNCHANGED pmeta /\ err' = "persist"
    /\ UNCHANGED <<first_tick, item_justified, contract_vars, api_vars>>

\* sleep(config.interval): in Crawler::run the loop goes on with the next
\* iteration; in run, after Crawler::grab returned Err, with a new Crawler::grab
Sleep ==
    /\ pc \in {"sleep_inner", "sleep_outer"}
    /\ pc' = IF pc = "sleep_inner" THEN "grab_headers" ELSE "grab"
    /\ err' = "none"
    /\ latest_finalized' = None
    /\ first_tick' = FALSE
    /\ UNCHANGED <<config, store_vars, metadata, cursor_vars, LATEST_JUSTFICATION,
                   req, chk, faults, hist_vars, item_justified>>
    /\ UNCHANGED <<contract_vars, api_vars>>

\* environment: while the loop sleeps, the bytes of a stored header rot
Corrupt ==
    /\ pc \in {"sleep_inner", "sleep_outer"}
    /\ Fault
    /\ \/ \E b \in Blocks : /\ headers[b].kind = "hdr"
                            /\ headers' = [headers EXCEPT ![b] = Bad]
                            /\ UNCHANGED para_headers
       \/ \E b \in Blocks : /\ para_headers[b].kind = "hdr"
                            /\ para_headers' = [para_headers EXCEPT ![b] = Bad]
                            /\ UNCHANGED headers
    /\ UNCHANGED <<config, storage_changes, genesis_tbl, pmeta, metadata,
                   cursor_vars, LATEST_JUSTFICATION, pc, latest_finalized, req,
                   err, chk, hist_vars>>
    /\ UNCHANGED <<first_tick, item_justified, contract_vars, api_vars>>

\* environment: the process is killed and started again
Crash ==
    /\ Fault
    /\ Started(pmeta)
    /\ UNCHANGED <<config, store_vars>>
    /\ UNCHANGED <<contract_vars, api_vars>>

\* `LATEST_JUSTFICATION.fetch_min(block.saturating_sub(1))`
update_404_block(marker, block) == Min(marker, Max(block - 1, 0))
\* the block a client asked for in vain: the top of the chain
NotFoundBlocks == {MaxBlock}
\* update_404_block(block), called from outside the crawl loop at any time.
\* It commutes with every step of the loop but the store of the closure, so
\* the calls are taken around the relay items; a call that finds the marker
\* low enough already changes nothing.
Update404 ==
    /\ pc \in {"grab_headers", "header_items"}
    /\ \E block \in NotFoundBlocks :
         LATEST_JUSTFICATION' = update_404_block(LATEST_JUSTFICATION, block)
    /\ LATEST_JUSTFICATION' # LATEST_JUSTFICATION
    /\ UNCHANGED <<config, store_vars, metadata, cursor_vars, pc, latest_finalized,
                   req, err, chk, faults, hist_vars>>
    /\ UNCHANGED <<first_tick, item_justified, contract_vars, api_vars>>

Next ==
    \/ Grab \/ GrabCrash
    \/ GrabHeaders \/ HeaderItem \/ HeaderItemCrash \/ HeadersDone
    \/ GrabParaHeaders \/ ParaHeaderItem \/ ParaHeaderItemCrash \/ ParaHeadersDone
    \/ GrabStorageChanges \/ StorageChangesItem \/ StorageChangesItemCrash
    \/ StorageChangesDone
    \/ ContinueCheckRelay \/ CheckBegin \/ CheckBlock \/ CheckFinish \/ RelayChecked
    \/ ContinueCheckPara \/ ParaChecked
    \/ Sleep \/ Corrupt \/ Crash
    \/ Update404

Spec == Init /\ [][Next]_vars

\* the steps of the crawler task itself: every await of the loop returns
\* (with Ok or Err) and tokio::time::sleep ends
Run ==
    \/ Grab
    \/ GrabHeaders \/ HeaderItem \/ HeadersDone
    \/ GrabParaHeaders \/ ParaHeaderItem \/ ParaHeadersDone
    \/ GrabStorageChanges \/ StorageChangesItem \/ StorageChangesDone
    \/ ContinueCheckRelay \/ CheckBegin \/ CheckBlock \/ CheckFinish \/ RelayChecked
    \/ ContinueCheckPara \/ ParaChecked
    \/ Sleep
\* the crawl loop with every stream enabled, on a runtime that keeps polling
\* the task; stages fail, the process is not killed
InitLive ==
    /\ Init
    /\ config.grab_headers /\ config.grab_para_headers
    /\ config.grab_storage_changes
SpecLive == InitLive /\ [][Run]_vars /\ WF_vars(Run)

\* ------------------------ SpecCheck: one verify pass on a damaged store
\* the table of stream `what` as the crawler grabbed it up to MaxBlock from
\* an honest node (relay headers start at the genesis block), with the
\* records of D damaged as f says
DamagedTable(what, cfg, D, f) ==
    [k \in Blocks |->
       IF k \in D THEN encode(Damaged(k, f[k]))
       ELSE IF what = "relay" /\ k < cfg.genesis_block THEN Absent
       ELSE encode(ChainHeader(k, "A"))]
Whats == {"relay", "para", "other"}
\* the (to, count) arguments of a call: to is given, or count, or neither
ToCountArgs ==
    {<<t, None>> : t \in Blocks} \cup {<<None, c>> : c \in {None, 0, 2}}
\* only the two header enable flags matter to a call
CheckConfigs == {c \in Configs : c.grab_storage_changes}
\* up to MaxDamage damaged records among the blocks lo..hi
DamageSets(lo, hi) ==
    {S \in SUBSET (Blocks \cap (lo..hi)) : Cardinality(S) <= MaxDamage}

\* an ad-hoc call (the operational endpoint) with its arguments
InitAdhoc ==
    /\ pc = "adhoc"
    /\ metadata = DefaultMetadata
    /\ \E what \in Whats, from \in Blocks, tc \in ToCountArgs :
         /\ chk = CallCheck(what, from, tc[1], tc[2])
         /\ \E D \in DamageSets(from, unwrap_or(tc[1], from + unwrap_or(tc[2], 1))) :
              \E f \in DamageChoices(D) :
                /\ what = "other" => D = {}
                /\ headers = DamagedTable("relay", config, IF what = "relay" THEN D ELSE {}, f)
                /\ para_headers = DamagedTable("para", config, IF what = "para" THEN D ELSE {}, f)

\* the crawl loop about to run continue_check_headers, all blocks imported:
\* checked is absent or at block 1
CheckedArgs == {None, 1}
\* recent_imported: the last block, or an earlier one imported again since
RecentArgs == {1, MaxBlock}
InitScheduled ==
    /\ pc = "check_relay"
    /\ chk = IdleCheck
    /\ \E cr \in CheckedArgs, cp \in CheckedArgs, recent \in RecentArgs :
         metadata =
           [genesis |-> {config.genesis_block},
            higest |-> [header |-> MaxBlock, para_header |-> MaxBlock,
                        storage_changes |-> None],
            recent_imported |-> [header |-> recent, para_header |-> recent,
                                 storage_changes |-> None],
            checked |-> [header |-> IF cr = None THEN None
                                    ELSE Max(cr, config.genesis_block),
                         para_header |-> cp, storage_changes |-> None]]
    /\ \E what \in {"relay", "para"} :
         \E D \in DamageSets(0, MaxBlock) : \E f \in DamageChoices(D) :
           /\ headers = DamagedTable("relay", config, IF what = "relay" THEN D ELSE {}, f)
           /\ para_headers = DamagedTable("para", config, IF what = "para" THEN D ELSE {}, f)

InitCheck ==
    /\ config \in CheckConfigs
    /\ InitAdhoc \/ InitScheduled
    /\ storage_changes = {}
    /\ genesis_tbl = metadata.genesis
    /\ pmeta = metadata
    /\ next_header = LoadedHeader(metadata, config)
    /\ next_para_header = LoadedParaHeader(metadata)
    /\ next_delta = LoadedDelta(metadata)
    /\ LATEST_JUSTFICATION = U32MAX
    /\ latest_finalized = None
    /\ req = NoRequest
    /\ err = "none"
    /\ faults = 0
    /\ genesis_fetches = 0 /\ genesis_writes = 0 /\ grab_failed = FALSE
    /\ first_tick = FALSE /\ item_justified = FALSE
    /\ Deployed
    /\ ManagerStarted

NextCheck ==
    \/ CheckBegin \/ CheckBlock \/ CheckFinish
    \/ ContinueCheckRelay \/ RelayChecked \/ ContinueCheckPara \/ ParaChecked
SpecCheck == InitCheck /\ [][NextCheck]_vars

\* ------------- SpecFrame: the crawler started, with a stream switched off,
\* on a store an earlier run left
\* what an earlier run, possibly with other enable flags, ingested of a
\* header stream: nothing, or every block up to MaxBlock
FrameHighest == {None, MaxBlock}
\* the record that rotted since: none, or the last block
FrameDamage == {{}, {MaxBlock}}
FrameTable(what, cfg, h, D, f) ==
    IF h = None THEN EmptyTable ELSE DamagedTable(what, cfg, D, f)
\* the configurations with a stream switched off
FrameConfigs ==
    {c \in Configs : ~(c.grab_headers /\ c.grab_para_headers /\ c.grab_storage_changes)}
InitFrame ==
    /\ config \in FrameConfigs
    /\ pc = "grab"
    /\ chk = IdleCheck
    /\ \E hr \in FrameHighest, hp \in FrameHighest :
         /\ metadata =
              [genesis |-> {config.genesis_block},
               higest |-> [header |-> hr, para_header |-> hp,
                           storage_changes |-> None],
               recent_imported |-> [header |-> hr, para_header |-> hp,
                                    storage_changes |-> None],
               checked |-> NoCursors]
         /\ \E what \in {"relay", "para"}, D \in FrameDamage :
              \E f \in DamageChoices(D) :
                /\ headers = FrameTable("relay", config, hr,
                                        IF what = "relay" THEN D ELSE {}, f)
                /\ para_headers = FrameTable("para", config, hp,
                                             IF what = "para" THEN D ELSE {}, f)
    /\ storage_changes = {}
    /\ genesis_tbl = metadata.genesis
    /\ pmeta = metadata
    /\ next_header = LoadedHeader(metadata, config)
    /\ next_para_header = LoadedParaHeader(metadata)
    /\ next_delta = LoadedDelta(metadata)
    /\ LATEST_JUSTFICATION = U32MAX
    /\ latest_finalized = None
    /\ req = NoRequest
    /\ err = "none"
    /\ faults = 0
    /\ genesis_fetches = 0 /\ genesis_writes = 0 /\ grab_failed = FALSE
    /\ first_tick = FALSE /\ item_justified = FALSE
    /\ Deployed
    /\ ManagerStarted
SpecFrame == InitFrame /\ [][Run]_vars


\* ------------------------------------------ the CheckSystem contract
\* the strings handed to set_flag
Flags == {"", "42", "on"}
\* who calls on_block_end: the contract's own account (the hook) or another
Callers == {"self", "other"}
\* the messages that neither read nor write the storage
OtherMessages ==
    {"start_sidevm", "cache_set", "cache_get", "parse_usd", "eval_js",
     "eval_js_bytecode", "runtime_version", "batch_http_get", "http_get",
     "stop_sidevm", "deploy_paid_sidevm", "calc_paid_sidevm_price",
     "set_sidevm_deadline", "query_sidevm", "sidevm_callbak",
     "system_contract_version", "eval_javascript", "pink_eval_js",
     "change_deposit"}
Bool(b) == IF b THEN "true" ELSE "false"

\* set_flag(flag): `self.flag = flag`
SetFlag ==
    /\ \E v \in Flags : flag' = v /\ ret' = Returned("set_flag", v, "()")
    /\ UNCHANGED <<on_block_end_called, hook, crawler_vars, api_vars>>

\* flag(): `self.flag.clone()`
Flag ==
    /\ ret' = Returned("flag", "-", flag)
    /\ UNCHANGED <<flag, on_block_end_called, hook, crawler_vars, api_vars>>

\* on_block_end_called()
OnBlockEndCalled ==
    /\ ret' = Returned("on_block_end_called", "-", Bool(on_block_end_called))
    /\ UNCHANGED <<flag, on_block_end_called, hook, crawler_vars, api_vars>>

\* set_hook(gas_limit): registers on_block_end as the OnBlockEnd hook
SetHook ==
    /\ hook' = TRUE
    /\ ret' = Returned("set_hook", "-", "()")
    /\ UNCHANGED <<flag, on_block_end_called, crawler_vars, api_vars>>

\* variant: on_block_end also clears the flag (ruled out by C20)
OnBlockEnd_clears_flag ==
    /\ \E caller \in Callers :
         /\ caller = "self" => hook
         /\ on_block_end_called' =
              IF caller # "self" THEN on_block_end_called ELSE TRUE
         /\ flag' = IF caller # "self" THEN flag ELSE ""
         /\ ret' = Returned("on_block_end", caller, "()")
    /\ UNCHANGED <<hook, crawler_vars, api_vars>>
\* on_block_end(): returns at once unless the caller is the contract itself,
\* which is how the registered hook calls it
OnBlockEnd ==
    /\ \E caller \in Callers :
         /\ caller = "self" => hook
         /\ on_block_end_called' =
              IF caller # "self" THEN on_block_end_called ELSE TRUE
         /\ ret' = Returned("on_block_end", caller, "()")
    /\ UNCHANGED <<flag, hook, crawler_vars, api_vars>>

\* any other message
OtherMessage ==
    /\ \E m \in OtherMessages : ret' = Returned(m, "-", "-")
    /\ UNCHANGED <<flag, on_block_end_called, hook, crawler_vars, api_vars>>

\* the contract as deployed, taking messages; the crawler stays as started
InitContract == InitLive
NextContract ==
    \/ SetFlag \/ Flag \/ OnBlockEndCalled \/ SetHook \/ OnBlockEnd
    \/ OtherMessage
SpecContract == InitContract /\ [][NextContract]_vars

\* ---------------------------------------- prb: the worker-manager API
\* variant: ids that are not in the map are left out (ruled out by C29)
get_workers_by_id_vec_skip_unknown(map, ids) ==
    [ok |-> TRUE, c |-> SelectSeq(ids, LAMBDA id : map[id] # NoWorker), id |-> "-"]
\* get_workers_by_id_vec: under the lock of the map, the contexts of all ids
\* in request order, or WorkerNotFound(id) for the first id the map lacks
get_workers_by_id_vec(map, ids) ==
    LET missing == {i \in 1..Len(ids) : map[ids[i]] = NoWorker}
        first == CHOOSE i \in missing : \A j \in missing : i <= j
    IN  IF missing = {} THEN [ok |-> TRUE, c |-> ids, id |-> "-"]
        ELSE [ok |-> FALSE, c |-> <<>>, id |-> ids[first]]
\* payload.ids / payload.requests.iter().map(|i| i.id)
Ids(requests) == [i \in 1..Len(requests) |-> requests[i].id]
\* the requests of at most MaxIds items
RECURSIVE Requests(_, _)
Requests(n, E) ==
    IF n = 0 THEN {<<>>}
    ELSE LET shorter == Requests(n - 1, E)
         IN  shorter \cup {Append(r, [id |-> i, endpoints |-> e]) :
                             r \in {x \in shorter : Len(x) = n - 1},
                             i \in WorkerIds, e \in E}
\* IdsRequest (ids only) and UpdateEndpointsRequest
IdsRequests == Requests(MaxIds, {"-"})
UpdateEndpointsRequests == Requests(MaxIds, EndpointLists)
\* a handler is called with `requests`: the lookup, and the loop if it is Ok
Handle(handler, requests) ==
    LET r == get_workers_by_id_vec(worker_map, Ids(requests))
        called == [IdleApi EXCEPT !.handler = handler, !.requests = requests]
    IN  IF ~r.ok
          THEN [called EXCEPT !.apc = "done", !.ret = <<"WorkerNotFound", r.id>>]
        ELSE IF r.c = <<>>
          THEN [called EXCEPT !.apc = "done", !.ret = <<"Ok">>]
        ELSE [called EXCEPT !.apc = "loop", !.c = r.c, !.idx = 1]
\* one iteration of a handler's loop: `send` says whether the worker in
\* this state gets the command; tx.send fails when the receiver is gone
Iterate(send, command) ==
    LET id == api.c[api.idx]
        w == worker_map[id]
        last == api.idx = Len(api.c)
    IN  IF ~send
          THEN IF last THEN [api EXCEPT !.apc = "done", !.ret = <<"Ok">>]
               ELSE [api EXCEPT !.idx = @ + 1]
        ELSE IF w.tx = "closed"
          THEN [api EXCEPT !.apc = "done", !.ret = <<"ServerError">>]
        ELSE IF last
          THEN [api EXCEPT !.apc = "done", !.ret = <<"Ok">>,
                           !.sent = Append(@, <<id, command>>)]
        ELSE [api EXCEPT !.idx = @ + 1, !.sent = Append(@, <<id, command>>)]

\* handle_restart_specific_workers: the call and the lookup
handle_restart_specific_workers ==
    /\ api.apc \in {"idle", "done"}
    /\ \E requests \in IdsRequests : api' = Handle("restart", requests)
    /\ UNCHANGED <<worker_map, crawler_vars, contract_vars>>
\* ... one iteration of its loop
RestartWorker ==
    /\ api.apc = "loop" /\ api.handler = "restart"
    /\ api' = Iterate(worker_map[api.c[api.idx]].state # "Restarting",
                      <<"ShouldRestart">>)
    /\ UNCHANGED <<worker_map, crawler_vars, contract_vars>>
\* handle_force_register_workers
handle_force_register_workers ==
    /\ api.apc \in {"idle", "done"}
    /\ \E requests \in IdsRequests :
         api' = Handle("force_register", requests)
    /\ UNCHANGED <<worker_map, crawler_vars, contract_vars>>
ForceRegisterWorker ==
    /\ api.apc = "loop" /\ api.handler = "force_register"
    /\ api' = Iterate(TRUE, <<"ShouldForceRegister">>)
    /\ UNCHANGED <<worker_map, crawler_vars, contract_vars>>
\* handle_update_endpoints
handle_update_endpoints ==
    /\ api.apc \in {"idle", "done"}
    /\ \E requests \in UpdateEndpointsRequests :
         api' = Handle("update_endpoints", requests)
    /\ UNCHANGED <<worker_map, crawler_vars, contract_vars>>
UpdateEndpoint ==
    /\ api.apc = "loop" /\ api.handler = "update_endpoints"
    /\ api' = Iterate(worker_map[api.c[api.idx]].state
                        \in {"Working", "GatekeeperWorking"},
                      <<"ShouldUpdateEndpoint", api.requests[api.idx].endpoints>>)
    /\ UNCHANGED <<worker_map, crawler_vars, contract_vars>>

\* the lifecycle manager puts a worker into the map
WorkerAdded ==
    /\ \E id \in WorkerIds \ UnknownIds, st \in WorkerStates :
         /\ worker_map[id] = NoWorker
         /\ worker_map' = [worker_map EXCEPT ![id] = [state |-> st, tx |-> "open"]]
    /\ UNCHANGED <<api, crawler_vars, contract_vars>>
\* a worker's lifecycle task moves the worker to another state
WorkerStateChanged ==
    /\ \E id \in WorkerIds, st \in WorkerStates :
         /\ worker_map[id] # NoWorker /\ worker_map[id].state # st
         /\ worker_map' = [worker_map EXCEPT ![id].state = st]
    /\ UNCHANGED <<api, crawler_vars, contract_vars>>
\* a worker's lifecycle task ends: the receiver of its channel is dropped
WorkerTaskEnded ==
    /\ \E id \in WorkerIds :
         /\ worker_map[id] # NoWorker /\ worker_map[id].tx = "open"
         /\ worker_map' = [worker_map EXCEPT ![id].tx = "closed"]
    /\ UNCHANGED <<api, crawler_vars, contract_vars>>

\* the worker manager serving its API; the crawler and the contract stay as
\* started
InitApi == InitLive
NextApi ==
    \/ handle_restart_specific_workers \/ RestartWorker
    \/ handle_force_register_workers \/ ForceRegisterWorker
    \/ handle_update_endpoints \/ UpdateEndpoint
    \/ WorkerAdded \/ WorkerStateChanged \/ WorkerTaskEnded
SpecApi == InitApi /\ [][NextApi]_vars

\* ==================================================================== claims
\* the records lo..hi of a table decode and each names its predecessor's hash
Linked(tbl, lo, hi) ==
    \A i \in lo..(hi - 1) :
      LET a == decode_header(db_get(tbl, i))
          b == decode_header(db_get(tbl, i + 1))
      IN  a.ok /\ b.ok /\ b.header.parent_hash = Hash(a.header)
\* the call of check_and_fix_headers has returned Ok
CheckSucceeded == chk.cpc = "done" /\ chk.err = "none"
\* the enable flag of the stream the call checks
StreamEnabled ==
    IF chk.what = "relay" THEN config.grab_headers ELSE config.grab_para_headers
\* a step that kills the process and starts it again
CrashStep == pc' = "grab" /\ faults' = faults + 1

\* C1: after check_and_fix_headers(stream, from, to) returned success, every
\* adjacent pair of stored records in from..to is hash-linked, whatever was
\* repaired during the pass.  (Stated as claimed; the code does not meet it.)
C1_LinkedAfterSuccess ==
    CheckSucceeded => Linked(TableOf(chk.what), chk.from, chk.to)

\* ------------------------------------------------------------------ C2
StreamStart(stream) == IF stream = "header" THEN config.genesis_block ELSE 0
HasRecord(stream, b) ==
    IF stream = "header" THEN db_get(headers, b).kind # "absent"
    ELSE IF stream = "para_header" THEN db_get(para_headers, b).kind # "absent"
    ELSE b \in storage_changes
Streams == {"header", "para_header", "storage_changes"}
\* C2: in every reachable state, crashes and failed writes included, the
\* store holds a record for every block from the stream's start up to the
\* highest of the persisted Metadata: persisted highest is never ahead.
C2_PersistedHighestStored ==
    \A stream \in Streams :
      pmeta.higest[stream] # None =>
        \A b \in StreamStart(stream)..pmeta.higest[stream] : HasRecord(stream, b)
\* the process came back after dying between put_header and put_metadata:
\* the store is ahead of the persisted highest
C2_Witness ==
    /\ pc = "grab" /\ faults = 1
    /\ pmeta.higest.header # None
    /\ HasRecord("header", pmeta.higest.header + 1)

\* ------------------------------------------------------------------ C3
ItemPc(stream) ==
    IF stream = "header" THEN "header_items"
    ELSE IF stream = "para_header" THEN "para_header_items"
    ELSE "storage_changes_items"
Cursor(stream) ==
    IF stream = "header" THEN next_header
    ELSE IF stream = "para_header" THEN next_para_header ELSE next_delta
CursorNext(stream) ==
    IF stream = "header" THEN next_header'
    ELSE IF stream = "para_header" THEN next_para_header' ELSE next_delta'
HasRecordNext(stream, b) ==
    IF stream = "header" THEN db_get(headers', b).kind # "absent"
    ELSE IF stream = "para_header" THEN db_get(para_headers', b).kind # "absent"
    ELSE b \in storage_changes'
\* C3: a closure puts item N, updates highest in memory, persists Metadata and
\* only then moves the cursor to N + 1.  A failed put changes neither
\* Metadata nor the cursor; a failed persist leaves the cursor; both make the
\* grab return the error without another item being delivered.
C3_ItemStep(stream) ==
    (pc = ItemPc(stream) /\ ~CrashStep) =>
      /\ err' = "put" =>
           /\ metadata' = metadata /\ pmeta' = pmeta
           /\ CursorNext(stream) = Cursor(stream)
           /\ UNCHANGED <<headers, para_headers, storage_changes>>
           /\ pc' = "sleep_outer" /\ req' = NoRequest
      /\ err' = "persist" =>
           /\ HasRecordNext(stream, Cursor(stream))
           /\ metadata'.higest[stream] = Cursor(stream)
           /\ pmeta' = pmeta
           /\ CursorNext(stream) = Cursor(stream)
           /\ pc' = "sleep_outer" /\ req' = NoRequest
      /\ CursorNext(stream) # Cursor(stream) =>
           /\ CursorNext(stream) = Cursor(stream) + 1
           /\ HasRecordNext(stream, Cursor(stream))
           /\ metadata'.higest[stream] = Cursor(stream)
           /\ pmeta' = metadata'
           /\ err' = "none" /\ pc' = pc
      /\ pc' = "sleep_outer" => UNCHANGED <<next_header, next_para_header, next_delta>>
C3_PutUpdatePersistAdvance ==
    [][\A stream \in Streams : C3_ItemStep(stream)]_vars
\* a closure failed at put_metadata: the item is stored, highest is updated
\* in memory only, the cursor stayed
C3_Witness ==
    /\ pc = "sleep_outer" /\ err = "persist"
    /\ metadata.higest.header # pmeta.higest.header
    /\ next_header = metadata.higest.header

\* ------------------------------------------------------------------ C4
\* a <= b, an absent cursor imposing no bound
OptLe(a, b) == a = None \/ b = None \/ a <= b
Ordered(m, stream) ==
    /\ OptLe(m.checked[stream], m.recent_imported[stream])
    /\ OptLe(m.recent_imported[stream], m.higest[stream])
\* C4: the persisted Metadata (and the in-memory one it is written from)
\* always has checked <= recent_imported <= highest for the relay and the
\* para stream.
C4_CheckedImportedHighest ==
    \A stream \in {"header", "para_header"} :
      Ordered(pmeta, stream) /\ Ordered(metadata, stream)
\* a verify pass of the relay stream was persisted after its headers were
\* imported
C4_Witness ==
    /\ pmeta.checked.header # None
    /\ pmeta.recent_imported.header # None
    /\ pmeta.higest.header # None

\* ------------------------------------------------------------------ C5
\* C5: while every grab call so far succeeded, no stream's highest ever
\* decreases and its next-start cursor is the last ingested item plus 1
\* (at startup: persisted highest + 1, else the genesis height for the relay
\* headers and 0 for the other two).
C5_CursorIsHighestPlusOne ==
    ~grab_failed =>
      \A stream \in Streams :
        Cursor(stream) = IF metadata.higest[stream] # None
                           THEN metadata.higest[stream] + 1
                           ELSE StreamStart(stream)
C5_HighestStep ==
    (~grab_failed' /\ ~CrashStep) =>
      \A stream \in Streams :
        /\ metadata.higest[stream] # None =>
             /\ metadata'.higest[stream] # None
             /\ metadata'.higest[stream] >= metadata.higest[stream]
        /\ metadata'.higest[stream] # metadata.higest[stream] =>
             /\ metadata'.higest[stream] = Cursor(stream)
             /\ CursorNext(stream) = Cursor(stream) + 1
C5_MonotonicCursors ==
    [](C5_CursorIsHighestPlusOne) /\ [][C5_HighestStep]_vars
\* two relay headers were ingested without any failure
C5_Witness ==
    /\ ~grab_failed /\ faults = 0
    /\ metadata.higest.header = config.genesis_block + 1
    /\ next_header = config.genesis_block + 2

\* ------------------------------------------------------------------ C6
CheckPc(stream) == IF stream = "header" THEN "check_relay" ELSE "check_para"
WhatOf(stream) == IF stream = "header" THEN "relay" ELSE "para"
\* C6: checked.<stream> changes only in the step that follows a successful
\* check_and_fix_headers for (old checked, to] and becomes that `to`; a pass
\* that fails leaves checked alone, and every pass starts from checked (the
\* stream's start while checked is absent), so the next one starts from the
\* same boundary.  (Steps of the running process: a restart reloads Metadata.)
C6_Step(stream) ==
    ~CrashStep =>
      /\ metadata'.checked[stream] # metadata.checked[stream] =>
           /\ pc = CheckPc(stream) /\ chk.what = WhatOf(stream)
           /\ CheckSucceeded
           /\ chk.from = unwrap_or(metadata.checked[stream], StreamStart(stream))
           /\ metadata'.checked[stream] = chk.to
           /\ chk.to > chk.from
      /\ (pc = CheckPc(stream) /\ chk.cpc = "done" /\ chk.err # "none") =>
           /\ metadata'.checked = metadata.checked
           /\ pmeta' = pmeta
      /\ (pc = CheckPc(stream) /\ chk.cpc = "idle" /\ chk'.cpc = "call") =>
           /\ chk'.what = WhatOf(stream)
           /\ chk'.from = unwrap_or(metadata.checked[stream], StreamStart(stream))
C6_CheckedOnlyAfterSuccess ==
    [][\A stream \in {"header", "para_header"} : C6_Step(stream)]_vars
\* a pass of the crawl loop failed on a rotted record and left checked as it
\* was
C6_Witness ==
    /\ pc = "sleep_inner" /\ err = "decode_from"
    /\ metadata.recent_imported.para_header # None
    /\ metadata.checked.para_header = None

\* ------------------------------------------------------------------ C7
\* the loop iteration for chk.block is taken and finds a mismatch
MismatchStep ==
    /\ chk.cpc = "loop" /\ chk.block <= chk.to
    /\ chk' # chk
    /\ chk'.step.mismatch
\* s is a prefix of t
IsPrefix(s, t) == Len(s) <= Len(t) /\ \A i \in 1..Len(s) : s[i] = t[i]
\* C7: an iteration whose parent-hash comparison fails re-fetches the previous
\* header's block, then the current header's block, once each and in that
\* order (stopping at a re-fetch that fails), and compares once more.  If the
\* two fresh headers are still not linked the call ends with the
\* cannot-fix-mismatch error in that same iteration; if they are, the loop
\* goes on with the next block.  A scheduled pass that ended with that error
\* leaves checked and the persisted Metadata alone.
C7_Step ==
    /\ MismatchStep =>
         LET s == chk'.step
             d == decode_header(db_get(TableOf(chk.what), chk.block))
             cur_number == IF d.ok THEN d.header.number ELSE chk.block
         IN  /\ d.ok => Hash(chk.prev) # d.header.parent_hash
             /\ Len(s.fix_fetched) >= 1
             /\ IsPrefix(s.fix_fetched, <<chk.prev.number, cur_number>>)
             /\ Len(s.fix_headers) <= Len(s.fix_fetched)
             /\ s.compared <= 2
             /\ chk'.mismatches = chk.mismatches + 1
             /\ IF Len(s.fix_headers) < 2
                  THEN chk'.cpc = "done" /\ chk'.err \notin {"none", "cannot_fix"}
                       /\ s.compared = 1
                ELSE IF Hash(s.fix_headers[1]) # s.fix_headers[2].parent_hash
                  THEN chk'.cpc = "done" /\ chk'.err = "cannot_fix"
                       /\ s.compared = 2
                ELSE chk'.cpc = "loop" /\ chk'.block = chk.block + 1
                     /\ chk'.err = "none" /\ s.compared = 2
    /\ chk'.err = "cannot_fix" /\ chk.err # "cannot_fix" => MismatchStep
    /\ (pc \in {"check_relay", "check_para"} /\ chk.cpc = "done"
          /\ chk.err = "cannot_fix") =>
         /\ metadata'.checked = metadata.checked
         /\ pmeta' = pmeta
C7_OneRepairRound == [][C7_Step]_vars
\* a scheduled pass met a link that was still broken after both re-fetches,
\* and handed the error to the crawl loop
C7_Witness ==
    /\ pc \in {"sleep_inner", "check_para"}
    /\ err = "cannot_fix"

\* ------------------------------------------------------------------ C8
\* the table the call started from was the consistent chain in from..to but
\* for one undecodable record at some k in (from, to]
OneUndecodable ==
    /\ chk.what \in {"relay", "para"}
    /\ chk.to <= MaxBlock
    /\ \E k \in (chk.from + 1)..chk.to :
         /\ db_get(chk.tbl0, k) = Bad
         /\ \A j \in (chk.from..chk.to) \ {k} :
              db_get(chk.tbl0, j) = encode(ChainHeader(j, "A"))
\* C8: on such a table, with the stream's re-fetch enabled and the chain API
\* answering every request with the consistent chain, the call succeeds, its
\* summary has one codec error and no mismatch, and the stored headers
\* from..to are hash-linked afterwards.
C8_RepairConvergence ==
    (chk.cpc = "done" /\ OneUndecodable /\ StreamEnabled /\ faults = 0) =>
      /\ chk.err = "none"
      /\ chk.response.codec_errors = 1
      /\ chk.response.mismatches = 0
      /\ ~chk.response.all_ok
      /\ chk.response.from = chk.from /\ chk.response.to = chk.to
      /\ Linked(TableOf(chk.what), chk.from, chk.to)
\* a call over three blocks returned after repairing the middle one
C8_Witness ==
    /\ chk.cpc = "done" /\ OneUndecodable /\ StreamEnabled /\ faults = 0
    /\ chk.what = "para" /\ chk.to = chk.from + 2
    /\ db_get(chk.tbl0, chk.from + 1) = Bad
    /\ chk.response.codec_errors = 1

C9_Counts ==
    /\ genesis_writes <= 1
    /\ genesis_writes = 1 =>
         /\ config.genesis_block \in metadata.genesis
         /\ config.genesis_block \in genesis_tbl
    /\ genesis_fetches >= genesis_writes
    /\ faults = 0 => genesis_fetches = genesis_writes
C9_Step ==
    ~CrashStep =>
      /\ config.genesis_block \in metadata.genesis =>
           /\ UNCHANGED <<genesis_fetches, genesis_writes, genesis_tbl>>
           /\ metadata'.genesis = metadata.genesis
           /\ pc = "grab" => (pmeta' = pmeta /\ metadata' = metadata)
      /\ genesis_fetches' # genesis_fetches =>
           /\ pc = "grab"
           /\ genesis_fetches' = genesis_fetches + 1
           /\ \/ /\ genesis_writes' = genesis_writes + 1
                 /\ genesis_tbl' = genesis_tbl \cup {config.genesis_block}
                 /\ metadata'.genesis = metadata.genesis \cup {config.genesis_block}
              \/ /\ err' = "put" /\ pc' = "sleep_outer"
                 /\ UNCHANGED <<genesis_writes, genesis_tbl, metadata, pmeta>>
Skips(next_pc) ==
    /\ pc' = next_pc
    /\ req' = NoRequest /\ err' = "none"
    /\ UNCHANGED <<store_vars, metadata, cursor_vars, LATEST_JUSTFICATION>>
\* C10: a grab stage that observes a finalized number below its admission
\* bound (next_header + justification_interval for the relay headers, the
\* next cursor for the para headers and the storage changes) issues no batch
\* request, writes neither store nor Metadata, moves no cursor and returns Ok,
\* so that the next stage runs.
C10_Step ==
    (~CrashStep /\ latest_finalized' # None) =>
      /\ (pc = "grab_headers"
            /\ latest_finalized' < next_header + config.justification_interval)
           => Skips("grab_para_headers")
      /\ (pc = "grab_para_headers" /\ latest_finalized' < next_para_header)
           => Skips("grab_storage_changes")
      /\ (pc = "grab_storage_changes" /\ latest_finalized' < next_delta)
           => Skips("check_relay")
C10_AdmissionGating == [][C10_Step]_vars
\* the enabled relay stage saw finalized = next_header, which is below
\* next_header + justification_interval, and returned
C10_Witness ==
    /\ pc = "grab_para_headers" /\ config.grab_headers
    /\ latest_finalized = next_header
    /\ err = "none" /\ req = NoRequest

\* ------------------------------------------------------------------ C11
\* C11: every upstream batch request (start s, count c) of a grab stage stays
\* within the finalized number the stage observed: s + c - 1 <= finalized.
\* (Stated as claimed; the relay stage asks for u32::MAX headers.)
C11_RequestWithinFinalized ==
    req # NoRequest =>
      /\ latest_finalized # None
      /\ req.count - 1 <= latest_finalized - req.start

\* ------------------------------------------------------------------ C12
\* the window the claim gives a scheduled pass of `stream`
ClaimedStart(stream) == unwrap_or(metadata.checked[stream], StreamStart(stream))
ClaimedEnd(stream) ==
    Min(unwrap_or(metadata.recent_imported[stream], 0),
        ClaimedStart(stream) + config.check_batch)
\* C12: a pass the crawl loop starts for a stream is the call for
\* (checked, min(recent_imported, checked + check_batch)] (checked standing
\* for the stream's start while it is absent), and every block its loop
\* reads lies in that interval, however far highest is ahead; when the upper
\* bound is not above the start the loop goes on to the next stage without a
\* call and leaves Metadata and the store alone.
C12_Step ==
    \A stream \in {"header", "para_header"} :
      /\ (pc = CheckPc(stream) /\ chk.cpc = "idle") =>
           IF ClaimedEnd(stream) > ClaimedStart(stream)
             THEN chk' = CallCheck(WhatOf(stream), ClaimedStart(stream),
                                   ClaimedEnd(stream), None)
                  /\ pc' = pc
             ELSE /\ chk' = chk /\ pc' # pc
                  /\ UNCHANGED <<metadata, store_vars>>
      /\ (pc = CheckPc(stream) /\ chk.cpc = "loop" /\ chk' # chk) =>
           /\ chk.what = WhatOf(stream)
           /\ chk.from = ClaimedStart(stream) /\ chk.to = ClaimedEnd(stream)
           /\ chk'.step.block # chk.step.block =>
                /\ chk'.step.block > ClaimedStart(stream)
                /\ chk'.step.block <= ClaimedEnd(stream)
C12_BoundedVerifyWindow == [][C12_Step]_vars
\* a scheduled para pass stopped at recent_imported, below highest
C12_Witness ==
    /\ pc = "check_para" /\ chk.cpc = "done" /\ chk.err = "none"
    /\ chk.to = metadata.recent_imported.para_header
    /\ chk.to < metadata.higest.para_header

\* ------------------------------------------------------------------ C13
Sleeping == pc \in {"sleep_inner", "sleep_outer"}
IterationStart == pc \in {"grab", "grab_headers"}
C13_Step ==
    \* a failure of any stage sends the loop to its sleep
    /\ (err = "none" /\ err' # "none") => pc' \in {"sleep_inner", "sleep_outer"}
    \* the sleep ends in the start of an iteration with the cursors it had
    /\ (Sleeping /\ pc' # pc /\ ~CrashStep) =>
         /\ pc' = IF pc = "sleep_inner" THEN "grab_headers" ELSE "grab"
         /\ UNCHANGED <<cursor_vars, metadata, store_vars>>
\* C13: once the Metadata is loaded no failure of a stage ends the crawl
\* loop: a failed stage leads to the sleep, the sleep leads to the start of
\* another iteration with the same cursors, and an iteration is started
\* again and again.
C13_LoopNeverTerminates ==
    /\ [][C13_Step]_vars
    /\ [](err # "none" => Sleeping)
    /\ []<>IterationStart
\* the loop sleeps after a stage failed
C13_Witness == Sleeping /\ err # "none" /\ faults > 0

\* ------------------------------------------------------------------ C14
\* C14: stored bytes that fail to decode are repaired wherever the pass
\* reads them: the pass re-fetches exactly that block and counts a codec
\* error, and an undecodable record, the boundary record at `from` included,
\* never fails the pass without a re-fetch.  (Stated as claimed; the code
\* bails at the boundary record.)
C14_DecodeTriggersRepair ==
    /\ chk.step.decode_failed => chk.step.codec_fetched = <<chk.step.block>>
    /\ chk.err # "decode_from"

\* ------------------------------------------------------------------ C15
C15_Step ==
    \* a loop iteration that has to repair a block of a disabled stream
    /\ (/\ chk.cpc = "loop" /\ chk.block <= chk.to /\ chk' # chk
        /\ ~StreamEnabled
        /\ chk'.step.decode_failed \/ chk'.step.mismatch) =>
          /\ chk'.cpc = "done" /\ chk'.err = "disabled"
          /\ UNCHANGED <<headers, para_headers, faults>>
    \* the crawl loop takes the failure: nothing becomes checked
    /\ (pc \in {"check_relay", "check_para"} /\ chk.cpc = "done"
        /\ chk.err = "disabled") =>
          /\ err' = "disabled" /\ pc' = "sleep_inner"
          /\ metadata'.checked = metadata.checked /\ pmeta' = pmeta
\* C15: a repair of a block of a stream whose enable flag is off fails the
\* call before a connection is made or a record is written; the call of
\* check_and_fix_headers fails with it, having written nothing, and the
\* range does not become checked.
C15_DisabledStreamRepairFails ==
    /\ [][C15_Step]_vars
    /\ [](chk.err = "disabled" =>
            /\ chk.cpc = "done" /\ ~StreamEnabled
            /\ TableOf(chk.what) = chk.tbl0)
    /\ []((CheckSucceeded /\ chk.what \in {"relay", "para"} /\ ~StreamEnabled) =>
            chk.response.all_ok)
\* the crawl loop sleeps after a para pass failed on the disabled stream
C15_Witness ==
    /\ pc = "sleep_inner" /\ err = "disabled"
    /\ ~config.grab_para_headers
    /\ metadata.checked.para_header = None

\* ------------------------------------------------------------------ C16
\* the record of chk.block as the loop iteration finds it
StoredCur == decode_header(db_get(TableOf(chk.what), chk.block))
C16_Step ==
    \* an iteration counts one codec error iff the stored bytes do not decode
    \* and one mismatch iff its first parent-hash comparison fails
    /\ (chk.cpc = "loop" /\ chk.block <= chk.to /\ chk'.cpc = "loop") =>
         /\ chk'.block = chk.block + 1
         /\ chk'.codec_errors = chk.codec_errors + (IF StoredCur.ok THEN 0 ELSE 1)
         /\ chk'.mismatches = chk.mismatches + (IF chk'.step.mismatch THEN 1 ELSE 0)
         /\ chk'.step.compared >= 1
         /\ StoredCur.ok =>
              (chk'.step.mismatch <=>
                 StoredCur.header.parent_hash # Hash(chk.prev))
    \* the summary of a call that ran through its loop
    /\ (chk.cpc = "loop" /\ chk'.cpc = "done" /\ chk'.err = "none") =>
         /\ chk.block = chk.to + 1
         /\ chk'.response.from = chk.from /\ chk'.response.to = chk.to
         /\ chk'.response.mismatches = chk.mismatches
         /\ chk'.response.codec_errors = chk.codec_errors
         /\ chk'.response.all_ok <=>
              (chk.mismatches = 0 /\ chk.codec_errors = 0)
\* C16: on success the summary's mismatch count is the number of blocks of
\* (from, to] whose first parent-hash comparison failed, its codec-error
\* count the number of those whose stored bytes failed to decode; it is the
\* "All OK" form exactly when both are zero and it names from and to.
C16_SummaryCounts ==
    /\ [][C16_Step]_vars
    /\ [](chk.cpc = "loop" =>
            /\ chk.block \in (chk.from + 1)..(chk.to + 1)
            /\ chk.mismatches <= chk.block - 1 - chk.from
            /\ chk.codec_errors <= chk.block - 1 - chk.from)
\* a call returned a summary with a mismatch and a codec error
C16_Witness ==
    /\ CheckSucceeded
    /\ chk.response.mismatches = 1 /\ chk.response.codec_errors = 1
    /\ ~chk.response.all_ok

\* ------------------------------------------------------------------ C17
\* the `to` a call works with: the given to, else from + count, else from + 1
EffectiveTo == unwrap_or(chk.to_arg, chk.from + unwrap_or(chk.count_arg, 1))
C17_Step ==
    (chk.cpc = "call" /\ chk' # chk) =>
      /\ EffectiveTo <= chk.from =>
           \* whatever the kind is and whatever is stored at `from`
           /\ chk'.cpc = "done" /\ chk'.err = "invalid_range"
           /\ UNCHANGED store_vars
      /\ (EffectiveTo > chk.from /\ chk.what \notin {"relay", "para"}) =>
           /\ chk'.cpc = "done" /\ chk'.err = "unknown_type"
           /\ UNCHANGED store_vars
      /\ chk'.err = "invalid_range" => EffectiveTo <= chk.from
\* C17: a call whose effective to is <= from fails with the invalid-range
\* error before it reads or writes a record, so also when there is no
\* record at `from` or the kind is unknown; a call for an unknown kind fails
\* without a store write.
C17_InvalidRangeUnknownKind ==
    /\ [][C17_Step]_vars
    /\ [](chk.err \in {"invalid_range", "unknown_type"} =>
            /\ chk.cpc = "done"
            /\ TableOf(chk.what) = chk.tbl0)
\* a call failed on its range although the record at `from` would not load
C17_Witness ==
    /\ chk.cpc = "done" /\ chk.err = "invalid_range"
    /\ chk.what \in {"relay", "para"}
    /\ ~decode_header(db_get(TableOf(chk.what), chk.from)).ok

\* ------------------------------------------------------------------ C18
AllStreamsEnabled ==
    /\ config.grab_headers /\ config.grab_para_headers
    /\ config.grab_storage_changes
\* the first iteration of a process started on empty Metadata has come to
\* its sleep without an error
FirstTickDone == first_tick /\ AllStreamsEnabled /\ pc = "sleep_inner" /\ err = "none"
\* what the verify pass of that iteration makes of checked.<stream>
FirstChecked(stream) ==
    LET recent == metadata.recent_imported[stream]
        start == StreamStart(stream)
    IN  IF recent # None /\ recent > start
          THEN Min(recent, start + config.check_batch)
          ELSE None
RelayItemStep ==
    /\ pc = "header_items" /\ ~CrashStep
    /\ next_header' # next_header \/ err' \in {"put", "persist"}
\* an item with a justification sets the marker to its number, one without
\* leaves it
C19_ItemStep ==
    RelayItemStep =>
      LATEST_JUSTFICATION' =
        IF item_justified' THEN next_header ELSE LATEST_JUSTFICATION
\* the marker is lowered to block - 1 for some block, nothing else changes
Lowered404 ==
    /\ \E block \in Blocks :
         /\ LATEST_JUSTFICATION > Max(block - 1, 0)
         /\ LATEST_JUSTFICATION' = Max(block - 1, 0)
    /\ UNCHANGED <<store_vars, metadata, cursor_vars, pc>>
\* C19 as claimed: the marker keeps its sentinel until a justified relay
\* header is grabbed, a justified item sets it to the item's number and an
\* item without a justification leaves it; so nothing but a justified item
\* (and the restart of the process, which starts from the sentinel again)
\* changes it.
C19_Step ==
    /\ C19_ItemStep
    /\ (LATEST_JUSTFICATION' # LATEST_JUSTFICATION /\ ~RelayItemStep) =>
         CrashStep /\ LATEST_JUSTFICATION' = U32MAX
C19_SentinelUntilJustified == [][C19_Step]_vars
\* C19, amended: the marker starts at the sentinel; a justified relay item
\* sets it to the item's number, an item without a justification leaves
\* it, and besides that only update_404_block(block) changes it, lowering
\* it to block - 1 when it is above.
C19_AmendedStep ==
    /\ C19_ItemStep
    /\ (LATEST_JUSTFICATION' # LATEST_JUSTFICATION /\ ~RelayItemStep) =>
         \/ CrashStep /\ LATEST_JUSTFICATION' = U32MAX
         \/ Lowered404
C19_JustificationMarker ==
    /\ [][C19_AmendedStep]_vars
    /\ [](LATEST_JUSTFICATION \in Blocks \cup {U32MAX})
\* a justified item set the marker and update_404_block lowered it since
C19_Witness ==
    /\ item_justified
    /\ metadata.higest.header # None
    /\ LATEST_JUSTFICATION < metadata.higest.header

\* ------------------------------------------------------------------ C20
C20_Step ==
    \* no message but set_flag changes the flag, and set_flag(v) makes it v
    /\ flag' # flag => ret'.msg = "set_flag"
    /\ (ret' # ret /\ ret'.msg = "set_flag") => flag' = ret'.arg
    \* flag() returns the flag and leaves it
    /\ (ret' # ret /\ ret'.msg = "flag") => ret'.value = flag /\ flag' = flag
\* C20: after set_flag(v) the message flag() returns v, for every string v
\* and until the next set_flag; no other message changes the flag.
C20_FlagRoundTrip ==
    /\ [][C20_Step]_vars
    /\ [](ret.msg = "set_flag" => flag = ret.arg)
    /\ [](ret.msg = "flag" => ret.value = flag)
\* flag() returned the "42" set before the hook ran on_block_end
C20_Witness ==
    /\ ret = Returned("flag", "-", "42")
    /\ on_block_end_called

\* ------------------------------------------------------------------ C21
\* the place of a position of the loop in the order of an iteration
StageOf(p) ==
    IF p = "grab" THEN 0
    ELSE IF p \in {"grab_headers", "header_items"} THEN 1
    ELSE IF p \in {"grab_para_headers", "para_header_items"} THEN 2
    ELSE IF p \in {"grab_storage_changes", "storage_changes_items"} THEN 3
    ELSE IF p = "check_relay" THEN 4
    ELSE IF p = "check_para" THEN 5
    ELSE 6
C21_Step ==
    (pc' # pc /\ ~CrashStep) =>
      \* an iteration starts only out of the sleep
      /\ Sleeping => pc' = IF pc = "sleep_inner" THEN "grab_headers" ELSE "grab"
      \* a stage hands over to the next one, or to the sleep when it failed
      /\ ~Sleeping =>
           \/ StageOf(pc') = StageOf(pc)
           \/ StageOf(pc') = StageOf(pc) + 1
           \/ pc' \in {"sleep_inner", "sleep_outer"} /\ err' # "none"
      \* the relay pass, failed or not, is followed by the para pass
      /\ (pc = "check_relay" /\ chk.cpc = "done" /\ chk.err # "none") =>
           pc' = "check_para"
\* C21: the stages of an iteration run in the order relay grab, para grab,
\* storage grab, verify, sleep, and an iteration starts only after the sleep;
\* a relay pass that fails is fatal for that pass only: the para pass runs in
\* the same iteration.  (Stated as claimed; the code skips the para pass.)
C21_StageOrder == [][C21_Step]_vars

\* ------------------------------------------------------------------ C22
\* C22: a repair overwrites the record under the key that was found bad:
\* every key a pass writes is in [from, to] (after a mismatch at block b the
\* keys b-1 and b), also when a stored record decodes to a header whose
\* number is not its key, and the records outside [from, to] stay as they
\* were.  (Stated as claimed; the code re-fetches by the decoded number.)
C22_RepairInPlace ==
    (chk.cpc \in {"loop", "done"} /\ chk.what \in {"relay", "para"}) =>
      /\ \A i \in 1..Len(chk.step.written) :
           chk.step.written[i] \in chk.from..chk.to
      /\ Len(chk.step.fix_fetched) = 2 =>
           chk.step.fix_fetched = <<chk.step.block - 1, chk.step.block>>
      /\ \A k \in Blocks \ (chk.from..chk.to) :
           TableOf(chk.what)[k] = chk.tbl0[k]

\* ------------------------------------------------------------------ C23
\* the store has no record under key b of the stream of the call
Missing(b) == db_get(TableOf(chk.what), b).kind = "absent"
\* the call ends with the not-found error, having fetched and written nothing
NotFoundEnd ==
    /\ chk'.cpc = "done" /\ chk'.err = "not_found"
    /\ chk'.codec_errors = chk.codec_errors /\ chk'.mismatches = chk.mismatches
    /\ UNCHANGED <<headers, para_headers, faults>>
C23_Step ==
    \* the boundary record
    /\ (/\ chk.cpc = "call" /\ chk' # chk
        /\ EffectiveTo > chk.from /\ chk.what \in {"relay", "para"}
        /\ Missing(chk.from)) => NotFoundEnd
    \* a record of the loop
    /\ (/\ chk.cpc = "loop" /\ chk.block <= chk.to /\ chk' # chk
        /\ Missing(chk.block)) =>
          /\ NotFoundEnd
          /\ chk'.step.codec_fetched = <<>> /\ chk'.step.fix_fetched = <<>>
    \* the crawl loop does not advance checked
    /\ (pc \in {"check_relay", "check_para"} /\ chk.cpc = "done"
        /\ chk.err = "not_found") =>
          /\ metadata'.checked = metadata.checked /\ pmeta' = pmeta
\* C23: a pass that finds no record for its boundary `from` or for a block of
\* from+1..to fails with the not-found error without re-fetching that block;
\* what it repaired before stays in the store and checked is not advanced.
C23_MissingRecordFails ==
    /\ [][C23_Step]_vars
    /\ [](chk.err = "not_found" =>
            /\ chk.cpc = "done"
            /\ \E b \in chk.from..chk.to : Missing(b))
\* a pass repaired a block and then failed on a missing one
C23_Witness ==
    /\ chk.cpc = "done" /\ chk.err = "not_found"
    /\ chk.codec_errors + chk.mismatches > 0
    /\ TableOf(chk.what) # chk.tbl0
    /\ Missing(chk.to)

\* ------------------------------------------------------------------ C24
\* where the next pass of a stream starts: checked, or the stream's default
CheckedOr(stream) ==
    unwrap_or(metadata.checked[stream], StreamStart(stream))
RecentOr(stream) == unwrap_or(metadata.recent_imported[stream], 0)
Behind(stream) == RecentOr(stream) > CheckedOr(stream)
Advance(stream) ==
    CheckedOr(stream) + Min(config.check_batch, RecentOr(stream) - CheckedOr(stream))
C24_Step ==
    \* a stream that is behind gets its pass
    /\ (/\ pc = "check_relay" /\ chk.cpc = "idle" /\ Behind("header")
        /\ config.check_batch >= 1 /\ <<pc, chk>>' # <<pc, chk>>) =>
          /\ chk'.cpc = "call" /\ chk'.what = "relay"
          /\ chk'.from = CheckedOr("header")
    /\ (/\ pc = "check_para" /\ chk.cpc = "idle" /\ Behind("para_header")
        /\ config.check_batch >= 1 /\ <<pc, chk>>' # <<pc, chk>>) =>
          /\ chk'.cpc = "call" /\ chk'.what = "para"
          /\ chk'.from = CheckedOr("para_header")
    \* a pass and its persist succeeded
    /\ (/\ pc = "check_relay" /\ chk.cpc = "done" /\ chk.err = "none"
        /\ pc' = "check_para") =>
          /\ metadata'.checked.header = Advance("header")
          /\ pmeta' = metadata'
    /\ (/\ pc = "check_para" /\ chk.cpc = "done" /\ chk.err = "none"
        /\ pc' # pc /\ err' # "persist") =>
          /\ metadata'.checked.para_header = Advance("para_header")
          /\ pmeta' = metadata'
\* C24: with check_batch >= 1 a stream whose recent_imported is above checked
\* gets a pass in every iteration, and a pass that succeeds together with
\* its persist advances checked by min(check_batch, recent_imported -
\* checked); as recent_imported stops growing, checked reaches it again and
\* again on both streams.
C24_SteadyProgress ==
    /\ [][C24_Step]_vars
    /\ []<>(~Behind("header"))
    /\ []<>(~Behind("para_header"))
\* both streams were verified up to what was imported
C24_Witness ==
    /\ metadata.checked.header # None /\ metadata.checked.para_header # None
    /\ metadata.checked.header = metadata.recent_imported.header
    /\ metadata.checked.para_header = metadata.recent_imported.para_header
    /\ metadata.checked.para_header >= config.check_batch
    /\ pmeta = metadata

\* ------------------------------------------------------------------ C25
\* the stream is enabled in the configuration
StreamOn(stream) ==
    IF stream = "header" THEN config.grab_headers
    ELSE IF stream = "para_header" THEN config.grab_para_headers
    ELSE config.grab_storage_changes
\* between two iterations: in the sleep, or at the start of an iteration
Boundary == Sleeping \/ IterationStart
\* the cursor still points at the block that highest already counts
Lag(stream) ==
    metadata.higest[stream] # None /\ Cursor(stream) = metadata.higest[stream]
\* C25 as claimed: at every iteration boundary the cursor of an enabled stream
\* whose highest is set is highest + 1, also after a failed put or persist.
C25_CursorAtBoundary ==
    Boundary =>
      \A stream \in Streams :
        (StreamOn(stream) /\ metadata.higest[stream] # None) =>
          Cursor(stream) = metadata.higest[stream] + 1
C25_Step ==
    \A stream \in Streams :
      \* only a failed persist of an item makes the cursor lag
      /\ (~Lag(stream) /\ Lag(stream)' /\ ~CrashStep) =>
           /\ pc = ItemPc(stream) /\ err' = "persist"
           /\ metadata'.higest[stream] = Cursor(stream)
           /\ HasRecordNext(stream, Cursor(stream))
      \* a failed put leaves highest and the cursor as they were
      /\ (pc = ItemPc(stream) /\ err' = "put") =>
           /\ metadata' = metadata /\ CursorNext(stream) = Cursor(stream)
\* C25, amended: at every iteration boundary the cursor of an enabled stream
\* whose highest is set is highest + 1, also after a failed item put; after a
\* failed Metadata persist of item N the in-memory highest is N while the
\* cursor is still N, so the next grab fetches block N, which is stored, again.
C25_CursorLagsAfterPersistFailure ==
    /\ [](Boundary =>
           \A stream \in Streams :
             (StreamOn(stream) /\ metadata.higest[stream] # None) =>
               \/ Cursor(stream) = metadata.higest[stream] + 1
               \/ /\ Lag(stream) /\ grab_failed
                  /\ HasRecord(stream, metadata.higest[stream]))
    /\ [][C25_Step]_vars
\* the loop sleeps after the persist of a relay header failed
C25_Witness ==
    /\ Sleeping /\ err = "persist" /\ config.grab_headers
    /\ Lag("header") /\ pmeta.higest.header # metadata.higest.header

\* ------------------------------------------------------------------ C26
C26_Step ==
    \* a height enters the persisted set only with its blob in the store
    /\ pmeta'.genesis \ pmeta.genesis \subseteq genesis_tbl'
    \* a blob is never removed
    /\ genesis_tbl \subseteq genesis_tbl'
\* C26: in every reachable state, also after a crash between put_genesis and
\* put_metadata and after a failed persist, every genesis height of the
\* persisted Metadata (and of the in-memory one) has its blob in the store.
C26_GenesisBlobFirst ==
    /\ [](pmeta.genesis \subseteq genesis_tbl)
    /\ [](metadata.genesis \subseteq genesis_tbl)
    /\ [][C26_Step]_vars
\* the blob is stored, the persist of the height failed
C26_Witness ==
    /\ err = "persist" /\ Sleeping
    /\ config.genesis_block \in genesis_tbl
    /\ config.genesis_block \in metadata.genesis
    /\ pmeta.genesis = {}

\* ------------------------------------------------------------------ C27
\* C27: when the closure of grab_headers writes the number N of a justified
\* item to the marker, the relay header record for N is in the store, also
\* when the store write for that item fails.  (Stated as claimed; the code
\* does not meet it.)
C27_Step ==
    (RelayItemStep /\ item_justified') =>
      /\ LATEST_JUSTFICATION' = next_header
      /\ HasRecordNext("header", LATEST_JUSTFICATION')
C27_MarkerRecordStored == [][C27_Step]_vars

\* ------------------------------------------------------------------ C28
StreamTable(stream) ==
    IF stream = "header" THEN headers
    ELSE IF stream = "para_header" THEN para_headers ELSE storage_changes
GrabPc(stream) ==
    IF stream = "header" THEN "grab_headers"
    ELSE IF stream = "para_header" THEN "grab_para_headers"
    ELSE "grab_storage_changes"
AfterGrabPc(stream) ==
    IF stream = "header" THEN "grab_para_headers"
    ELSE IF stream = "para_header" THEN "grab_storage_changes"
    ELSE "check_relay"
\* no step writes the table of the stream or moves its two cursors
Untouched(stream) ==
    /\ StreamTable(stream)' = StreamTable(stream)
    /\ metadata'.higest[stream] = metadata.higest[stream]
    /\ pmeta'.higest[stream] = pmeta.higest[stream]
    /\ CursorNext(stream) = Cursor(stream)
\* the grab stage of the stream is left
StageLeft(stream) == pc = GrabPc(stream) /\ pc' # pc
\* ... with Ok and without a batch request
StageOk(stream) ==
    /\ pc' = AfterGrabPc(stream) /\ err' = "none" /\ req' = NoRequest
\* C28 as claimed: while the flag of a stream is off nothing writes its table
\* or moves its cursors, and its grab stage returns success without a batch
\* request.
C28_ClaimedStep ==
    \A stream \in Streams :
      ~StreamOn(stream) =>
        /\ Untouched(stream)
        /\ StageLeft(stream) => StageOk(stream)
C28_DisabledStageSucceeds == [][C28_ClaimedStep]_vars
C28_Step ==
    \A stream \in Streams :
      ~StreamOn(stream) =>
        /\ Untouched(stream)
        /\ StageLeft(stream) =>
             \/ StageOk(stream)
             \/ /\ err' = "finalized" /\ pc' = "sleep_outer" /\ req' = NoRequest
                /\ faults' = faults + 1
\* C28, amended: while the flag of a stream is off nothing writes its table
\* or moves its highest or its next-start cursor; its grab stage makes no
\* batch request and returns success unless its query of the finalized
\* height fails, which fails the stage; a verify pass on the stream reads
\* records and fails with the disabled-stream error where it would repair.
C28_DisabledStreamFrame ==
    /\ [][C28_Step]_vars
    /\ []((chk.cpc \in {"loop", "done"} /\ chk.what \in {"relay", "para"}
           /\ ~StreamEnabled) => TableOf(chk.what) = chk.tbl0)
\* a grab stage has failed on its query, and a later pass on the disabled
\* relay stream met a damaged record
C28_Witness ==
    /\ ~config.grab_headers
    /\ chk.cpc = "done" /\ chk.what = "relay" /\ chk.err = "disabled"
    /\ faults > 0 /\ grab_failed

\* ------------------------------------------------------------------ C29
\* the handler is entered by this step
Called == api.apc \in {"idle", "done"} /\ api' # api
\* the positions of the request whose id the map lacks
MissingIds(requests) ==
    {i \in 1..Len(requests) : worker_map[requests[i].id] = NoWorker}
C29_Step ==
    \* a request naming an id the map lacks ends in the lookup
    /\ (Called /\ MissingIds(api'.requests) # {}) =>
         /\ api'.apc = "done"
         /\ api'.ret[1] = "WorkerNotFound"
         /\ api'.ret[2] \in {api'.requests[i].id : i \in MissingIds(api'.requests)}
         /\ \A i \in MissingIds(api'.requests) :
              api'.requests[i].id = api'.ret[2] \/
                \E j \in MissingIds(api'.requests) :
                  j < i /\ api'.requests[j].id = api'.ret[2]
         /\ api'.sent = <<>>
    \* a command is sent only by a loop over all the workers of the request
    /\ api'.sent # api.sent =>
         \/ Called /\ api'.sent = <<>>
         \/ /\ api.apc = "loop" /\ api.c = Ids(api.requests)
            /\ api'.sent = Append(api.sent, api'.sent[Len(api'.sent)])
            /\ api'.sent[Len(api'.sent)][1] = api.c[api.idx]
\* C29: restart-workers, force-register-workers and update-endpoints look up
\* every id of the request first; when the map lacks one of them the handler
\* returns WorkerNotFound for the first such id and no command is sent to
\* any worker, the known ones of the request included.
C29_AllOrNothingLookup ==
    /\ [][C29_Step]_vars
    /\ [](api.ret[1] = "WorkerNotFound" => api.apc = "done" /\ api.sent = <<>>)
    /\ [](api.sent # <<>> => api.c = Ids(api.requests))
\* a request named a worker that would have got the command before an id
\* the map lacks
C29_Witness ==
    /\ api.ret[1] = "WorkerNotFound"
    /\ Len(api.requests) = 2
    /\ api.requests[2].id = api.ret[2]
    /\ worker_map[api.requests[1].id] # NoWorker
    /\ worker_map[api.requests[1].id].state = "Working"
    /\ worker_map[api.requests[1].id].tx = "open"

====
